---- MODULE Spec2Model ----
(***************************************************************************)
(* Model of the rice-notes backend: the note service (CreateNote,          *)
(* GetNoteByID, GetUserNotes, DeleteNote) over the Postgres note           *)
(* repository and the object store uploader, and the auth service          *)
(* (ExchangeCodeForToken, generateJWT, ValidateJWT, isRiceEmail).          *)
(*                                                                         *)
(* Strings whose content the code inspects (emails, file names, storage    *)
(* keys, query parameters) are sequences of one-character strings.  A      *)
(* title and a course id are inspected only through len(), so the model    *)
(* keeps one string per byte length and writes it as that length.          *)
(* An error value is its message text, a sequence of pieces; nil is <<>>.  *)
(***************************************************************************)
EXTENDS Integers, Sequences, FiniteSets, TLC

VARIABLES rows, files, nextID, now, call, deleted, auth, session, http

vars == <<rows, files, nextID, now, call, deleted, auth, session, http>>

authVars == <<auth, session>>

-----------------------------------------------------------------------------
(* Bounds of the model *)

\* uuid.New() is called at most this many times
MaxNotes == 2
\* the database clock NOW() runs from 1 to MaxTime
MaxTime == 2
\* the clock is read in ticks, this many to the second
TicksPerSecond == 2

-----------------------------------------------------------------------------
(* Program constants *)

MaxFileSize == 10 * 1024 * 1024
AllowedContentType == "application/pdf"
\* validateCreateNoteRequest
MaxTitleLen == 255
MaxCourseIDLen == 50
\* CREATE TABLE notes
UserEmailColumnLen == 255
TitleColumnLen == 255
CourseIDColumnLen == 20
FileNameColumnLen == 255
\* GetUserNotes / NoteHandler.GetNotes
MaxLimit == 100
DefaultLimit == 50
DefaultOffset == 0
\* generateJWT
TokenLifetimeHours == 24
Issuer == "rice-notes"

-----------------------------------------------------------------------------
(* Strings *)

UpperCase == <<"A","B","C","D","E","F","G","H","I","J","K","L","M",
               "N","O","P","Q","R","S","T","U","V","W","X","Y","Z">>
LowerCase == <<"a","b","c","d","e","f","g","h","i","j","k","l","m",
               "n","o","p","q","r","s","t","u","v","w","x","y","z">>

\* unicode.ToLower on one character
ToLowerChar(c) ==
  IF \E i \in 1..26 : UpperCase[i] = c
  THEN LowerCase[CHOOSE i \in 1..26 : UpperCase[i] = c]
  ELSE c

\* strings.ToLower
ToLower(s) == [i \in 1..Len(s) |-> ToLowerChar(s[i])]

\* strings.HasSuffix
HasSuffix(s, suffix) ==
  /\ Len(suffix) <= Len(s)
  /\ SubSeq(s, Len(s) - Len(suffix) + 1, Len(s)) = suffix

\* strings.Contains
Contains(s, substr) ==
  \E i \in 1..(Len(s) - Len(substr) + 1) :
     SubSeq(s, i, i + Len(substr) - 1) = substr

\* filepath.Ext: the suffix beginning at the final dot in the final
\* slash-separated element of path; empty if there is no dot
RECURSIVE ExtFrom(_, _)
ExtFrom(path, i) ==
  IF i < 1 \/ path[i] = "/" THEN <<>>
  ELSE IF path[i] = "." THEN SubSeq(path, i, Len(path))
  ELSE ExtFrom(path, i - 1)

Ext(path) == ExtFrom(path, Len(path))

Digits == <<"0","1","2","3","4","5","6","7","8","9">>
IsDigit(c) == \E i \in 1..10 : Digits[i] = c
DigitVal(c) == (CHOOSE i \in 1..10 : Digits[i] = c) - 1

RECURSIVE DigitsVal(_)
DigitsVal(s) ==
  IF s = <<>> THEN 0
  ELSE 10 * DigitsVal(SubSeq(s, 1, Len(s) - 1)) + DigitVal(s[Len(s)])

\* strconv.Atoi: an optional sign followed by one or more decimal digits
Atoi(s) ==
  LET signed == s # <<>> /\ s[1] \in {"+", "-"}
      body   == IF signed THEN Tail(s) ELSE s
      ok     == body # <<>> /\ \A i \in 1..Len(body) : IsDigit(body[i])
  IN  [ok  |-> ok,
       val |-> IF ~ok THEN 0
               ELSE IF signed /\ s[1] = "-" THEN 0 - DigitsVal(body)
               ELSE DigitsVal(body)]

-----------------------------------------------------------------------------
(* Values *)

NoErr == <<>>

NoHeader == [present |-> FALSE, Filename |-> <<>>, Size |-> 0]

Header(filename, size) == [present |-> TRUE, Filename |-> filename, Size |-> size]

NoNote ==
  [ID |-> 0, UserEmail |-> <<>>, Title |-> 0, CourseID |-> 0, FileName |-> <<>>,
   FilePath |-> <<>>, FileSize |-> 0, ContentType |-> "", UploadedAt |-> 0]

\* models.NoteResponse: the note without its owner and storage key
NoteResponse(note) == [note EXCEPT !.UserEmail = <<>>, !.FilePath = <<>>]

\* uuid.UUID.String(): one token per identifier
UUIDString(id) == <<ToString(id)>>

\* a key that leaves out the note id
GenerateFileKey_NoID(userEmail, noteID, fileName) ==
  <<"n","o","t","e","s","/">> \o userEmail \o <<"/">> \o fileName

\* storage.GenerateFileKey: fmt.Sprintf("notes/%s/%s/%s", ...)
GenerateFileKey(userEmail, noteID, fileName) ==
  <<"n","o","t","e","s","/">> \o userEmail \o <<"/">> \o noteID \o <<"/">> \o fileName

\* error texts of the stores themselves
DBError == <<"pgx: connection failure">>
ConstraintError == <<"ERROR: value too long for type character varying">>
S3Error == <<"s3: operation error">>

\* fmt.Errorf(prefix + "%w", err)
Wrap(prefix, err) == <<prefix>> \o err

-----------------------------------------------------------------------------
(* NoteService.validateCreateNoteRequest *)

validateCreateNoteRequest(userEmail, title, courseID, header) ==
  IF userEmail = <<>> THEN <<"user email is required">>
  ELSE IF title = 0 THEN <<"title is required">>
  ELSE IF title > MaxTitleLen THEN <<"title must be 255 characters or less">>
  ELSE IF courseID = 0 THEN <<"course ID is required">>
  ELSE IF courseID > MaxCourseIDLen THEN <<"course ID must be 50 characters or less">>
  ELSE IF ~header.present THEN <<"file is required">>
  ELSE IF header.Size = 0 THEN <<"file cannot be empty">>
  ELSE IF header.Size > MaxFileSize THEN <<"file size must be less than %d bytes">>
  ELSE IF ToLower(Ext(header.Filename)) # <<".","p","d","f">>
       THEN <<"only PDF files are allowed">>
  ELSE NoErr

-----------------------------------------------------------------------------
(* PostgresNoteRepository over the notes table *)

\* a table with a unique constraint on (user_email, title)
InsertAccepted_UniqueTitle(note) ==
  /\ note.ID \notin DOMAIN rows
  /\ \A id \in DOMAIN rows :
       ~(rows[id].UserEmail = note.UserEmail /\ rows[id].Title = note.Title)
  /\ Len(note.UserEmail) <= UserEmailColumnLen
  /\ note.Title <= TitleColumnLen
  /\ note.CourseID <= CourseIDColumnLen
  /\ Len(note.FileName) <= FileNameColumnLen

\* the column constraints of CREATE TABLE notes and its primary key
InsertAccepted(note) ==
  /\ note.ID \notin DOMAIN rows
  /\ Len(note.UserEmail) <= UserEmailColumnLen
  /\ note.Title <= TitleColumnLen
  /\ note.CourseID <= CourseIDColumnLen
  /\ Len(note.FileName) <= FileNameColumnLen

\* a query that leaves out its WHERE user_email clause
MatchesUser_AnyOwner(id, userEmail) == TRUE

\* WHERE user_email = $1
MatchesUser(id, userEmail) == rows[id].UserEmail = userEmail

MatchesCourse_OwnerOnly(id, userEmail, courseID) ==
  rows[id].UserEmail = userEmail

\* WHERE user_email = $1 AND course_id = $2
MatchesCourse(id, userEmail, courseID) ==
  rows[id].UserEmail = userEmail /\ rows[id].CourseID = courseID

\* ORDER BY uploaded_at DESC: every order of the matching rows that is
\* descending in uploaded_at (rows with equal times come in any order)
OrderedDesc(ids) ==
  {s \in [1..Cardinality(ids) -> ids] :
     /\ \A i, j \in 1..Cardinality(ids) : i # j => s[i] # s[j]
     /\ \A i, j \in 1..Cardinality(ids) :
          i < j => rows[s[i]].UploadedAt >= rows[s[j]].UploadedAt}

\* LIMIT $n OFFSET $m
LimitOffset(s, limit, offset) ==
  IF offset >= Len(s) THEN <<>>
  ELSE SubSeq(s, offset + 1, IF offset + limit > Len(s) THEN Len(s) ELSE offset + limit)

\* the possible results of GetNotesByUser
GetNotesByUser(userEmail, limit, offset) ==
  {[i \in 1..Len(LimitOffset(s, limit, offset)) |-> rows[LimitOffset(s, limit, offset)[i]]] :
     s \in OrderedDesc({id \in DOMAIN rows : MatchesUser(id, userEmail)})}

\* the possible results of GetNotesByCourse
GetNotesByCourse(userEmail, courseID, limit, offset) ==
  {[i \in 1..Len(LimitOffset(s, limit, offset)) |-> rows[LimitOffset(s, limit, offset)[i]]] :
     s \in OrderedDesc({id \in DOMAIN rows : MatchesCourse(id, userEmail, courseID)})}

\* DELETE FROM notes WHERE id = $1 AND user_email = $2: the rows affected
DeleteMatches(id, userEmail) ==
  {i \in DOMAIN rows : i = id /\ rows[i].UserEmail = userEmail}

Remove(f, ks) == [k \in (DOMAIN f) \ ks |-> f[k]]

-----------------------------------------------------------------------------
(* Values of the auth service *)

UserInfo(email, name, picture, verified) ==
  [Email |-> email, Name |-> name, Picture |-> picture, Verified |-> verified]

NoUserInfo == UserInfo(<<>>, "", "", FALSE)

\* JWTClaims with its jwt.RegisteredClaims
NoClaims ==
  [Email |-> <<>>, Name |-> "", Picture |-> "", ExpiresAt |-> 0, IssuedAt |-> 0,
   Issuer |-> ""]

\* the signature of a signing method over the claims under a key
Signature(alg, claims, key) == [alg |-> alg, claims |-> claims, key |-> key]

NoSignature == Signature("", NoClaims, "")

\* a token string: header, claims and signature; the empty string is NoToken
Token(alg, claims, sig) == [alg |-> alg, claims |-> claims, sig |-> sig]

NoToken == Token("", NoClaims, NoSignature)

\* one client: the session token it holds, when and for whom that token
\* was issued, the auth call it has in progress, and the state parameters
\* GoogleLogin has sent it to the provider with
NoSession ==
  [op |-> "idle", pc |-> "idle", provider |-> "", userInfo |-> NoUserInfo,
   token |-> NoToken, startedAt |-> 0, claims |-> NoClaims,
   retErr |-> NoErr, retToken |-> NoToken, retClaims |-> NoClaims,
   held |-> NoToken, heldAt |-> 0, heldFor |-> NoUserInfo, issued |-> {}]

-----------------------------------------------------------------------------
(* Values of the HTTP layer *)

\* the Authorization header: its scheme and what follows "<scheme> "
AuthHeader(scheme, token) == [scheme |-> scheme, token |-> token]

NoAuthHeader == AuthHeader("", NoToken)

\* the jwt cookie of a request
Cookie(value) == [present |-> TRUE, value |-> value]

NoCookie == [present |-> FALSE, value |-> NoToken]

\* the {id} of a route: whether uuid.Parse accepts it, and the identifier
NoteIDParam(valid, id) == [valid |-> valid, id |-> id]

\* a request: route, credentials, and the inputs the handlers read; owner
\* is a user_email field a client may add to its form or query, requestID
\* the X-Request-ID header
NoRequest ==
  [route |-> "", authHeader |-> NoAuthHeader, cookie |-> NoCookie,
   formOK |-> TRUE, owner |-> <<>>, title |-> 0, courseID |-> 0, file |-> NoHeader,
   id |-> NoteIDParam(FALSE, 0), limitStr |-> <<>>, offsetStr |-> <<>>,
   code |-> "", state |-> "", error |-> "", requestID |-> ""]

\* a cookie set by a response
NoSetCookie ==
  [Name |-> "", Value |-> NoToken, Path |-> "", HttpOnly |-> FALSE, Secure |-> FALSE,
   SameSite |-> "", MaxAge |-> 0]

\* a response body: plain text of http.Error, an ErrorResponse, a
\* UserResponse, a note or a list of notes
NoBody ==
  [kind |-> "", text |-> <<>>, error |-> "", message |-> "",
   email |-> <<>>, name |-> "", picture |-> "", note |-> NoNote, notes |-> <<>>]

\* the call of ExchangeCodeForToken a request made, and what it returned
Exchange(provider, userInfo, result) ==
  [called |-> TRUE, provider |-> provider, userInfo |-> userInfo, result |-> result]

NoExchange ==
  [called |-> FALSE, provider |-> "", userInfo |-> NoUserInfo,
   result |-> [err |-> NoErr, JWT |-> NoToken]]

-----------------------------------------------------------------------------
(* Request workers *)

Workers == {"w1", "w2"}

Idle ==
  [op |-> "idle", pc |-> "idle",
   userEmail |-> <<>>, title |-> 0, courseID |-> 0, header |-> NoHeader,
   noteID |-> 0, limitStr |-> <<>>, offsetStr |-> <<>>, limit |-> 0, offset |-> 0,
   note |-> NoNote, err |-> NoErr,
   retErr |-> NoErr, retNote |-> NoNote, retNotes |-> <<>>, panicked |-> FALSE,
   calls |-> <<>>, faults |-> {}]

\* one recorded call to a store
StoreCall(fn, key, id, limit, offset) ==
  [fn |-> fn, key |-> key, id |-> id, limit |-> limit, offset |-> offset]

\* the request in service, the time it arrived, the claims the middleware
\* put in its context, the calls its handler made, and the response written
NoHttp ==
  [pc |-> "idle", req |-> NoRequest, at |-> 0, hasUser |-> FALSE, user |-> NoClaims,
   exchange |-> NoExchange, served |-> Idle,
   status |-> 0, body |-> NoBody, setCookie |-> NoSetCookie, location |-> ""]

Init ==
  /\ rows = <<>>
  /\ files = <<>>
  /\ nextID = 0
  /\ now = 1
  /\ call = [w \in Workers |-> Idle]
  /\ deleted = {}
  /\ auth = [jwtSecret |-> "JWT_SECRET"]
  /\ session = NoSession
  /\ http = NoHttp

-----------------------------------------------------------------------------
(* NoteService.CreateNote *)

\* lines 39-61: the log line that reads header.Filename, validation, the
\* fresh identifier and the note model
CreateNote(w, userEmail, title, courseID, header) ==
  /\ call[w].pc = "idle"
  /\ LET c == [Idle EXCEPT !.op = "CreateNote", !.userEmail = userEmail,
                           !.title = title, !.courseID = courseID, !.header = header]
         err == validateCreateNoteRequest(userEmail, title, courseID, header)
     IN  IF ~header.present
         THEN \* header.Filename on a nil *multipart.FileHeader
              /\ call' = [call EXCEPT ![w] = [c EXCEPT !.pc = "done", !.panicked = TRUE]]
              /\ UNCHANGED nextID
         ELSE IF err # NoErr
         THEN /\ call' = [call EXCEPT ![w] = [c EXCEPT !.pc = "done", !.retErr = err]]
              /\ UNCHANGED nextID
         ELSE /\ nextID < MaxNotes
              /\ nextID' = nextID + 1
              /\ call' = [call EXCEPT ![w] =
                   [c EXCEPT !.pc = "upload",
                             !.noteID = nextID + 1,
                             !.note = [ID          |-> nextID + 1,
                                       UserEmail   |-> userEmail,
                                       Title       |-> title,
                                       CourseID    |-> courseID,
                                       FileName    |-> header.Filename,
                                       FilePath    |-> GenerateFileKey(userEmail,
                                                          UUIDString(nextID + 1),
                                                          header.Filename),
                                       FileSize    |-> header.Size,
                                       ContentType |-> AllowedContentType,
                                       UploadedAt  |-> 0]]]
  /\ UNCHANGED <<rows, files, now, deleted, authVars, http>>

\* lines 63-67: s.uploader.Upload
CreateNote_Upload(w, fail) ==
  /\ call[w].op = "CreateNote" /\ call[w].pc = "upload"
  /\ LET c == call[w]
         spy == Append(c.calls, StoreCall("uploader.Upload", c.note.FilePath, c.noteID, 0, 0))
     IN  IF fail
         THEN /\ call' = [call EXCEPT ![w] =
                   [c EXCEPT !.pc = "done", !.calls = spy, !.faults = {"uploader"},
                             !.retErr = Wrap("failed to upload file: ",
                                          Wrap("failed to upload file to S3: ", S3Error))]]
              /\ UNCHANGED files
         ELSE /\ files' = (c.note.FilePath :> c.noteID) @@ files
              /\ call' = [call EXCEPT ![w] = [c EXCEPT !.pc = "insert", !.calls = spy]]
  /\ UNCHANGED <<rows, nextID, now, deleted, authVars, http>>

\* an insert that stores the row although it reports a failure
CreateNote_Insert_RowDespiteError(w, fail, t) ==
  /\ call[w].op = "CreateNote" /\ call[w].pc = "insert"
  /\ t \in {now, now + 1} /\ t <= MaxTime
  /\ LET c == call[w]
         spy == Append(c.calls, StoreCall("repo.CreateNote", c.note.FilePath, c.noteID, 0, 0))
         stored == [c.note EXCEPT !.UploadedAt = t]
     IN  IF ~InsertAccepted(c.note)
         THEN /\ call' = [call EXCEPT ![w] =
                   [c EXCEPT !.pc = "cleanup", !.calls = spy,
                             !.err = Wrap("failed to create note: ", ConstraintError)]]
              /\ UNCHANGED rows
         ELSE IF fail
         THEN /\ rows' = (c.noteID :> stored) @@ rows
              /\ call' = [call EXCEPT ![w] =
                   [c EXCEPT !.pc = "cleanup", !.calls = spy, !.faults = {"repo"},
                             !.err = Wrap("failed to create note: ", DBError)]]
         ELSE /\ rows' = (c.noteID :> stored) @@ rows
              /\ call' = [call EXCEPT ![w] =
                   [c EXCEPT !.pc = "done", !.calls = spy, !.note = stored,
                             !.retNote = NoteResponse(stored)]]
  /\ now' = t
  /\ UNCHANGED <<files, nextID, deleted, authVars, http>>

\* lines 69-70 and 79-91: s.repo.CreateNote, which scans uploaded_at back
\* into the note, and the response
CreateNote_Insert(w, fail, t) ==
  /\ call[w].op = "CreateNote" /\ call[w].pc = "insert"
  /\ t \in {now, now + 1} /\ t <= MaxTime
  /\ LET c == call[w]
         spy == Append(c.calls, StoreCall("repo.CreateNote", c.note.FilePath, c.noteID, 0, 0))
         stored == [c.note EXCEPT !.UploadedAt = t]
     IN  IF fail \/ ~InsertAccepted(c.note)
         THEN /\ call' = [call EXCEPT ![w] =
                   [c EXCEPT !.pc = "cleanup", !.calls = spy,
                             !.faults = IF fail THEN {"repo"} ELSE {},
                             !.err = Wrap("failed to create note: ",
                                          IF fail THEN DBError ELSE ConstraintError)]]
              /\ UNCHANGED rows
         ELSE /\ rows' = (c.noteID :> stored) @@ rows
              /\ call' = [call EXCEPT ![w] =
                   [c EXCEPT !.pc = "done", !.calls = spy, !.note = stored,
                             !.retNote = NoteResponse(stored)]]
  /\ now' = t
  /\ UNCHANGED <<files, nextID, deleted, authVars, http>>

\* a cleanup that returns the error of its own delete when that delete fails
CreateNote_Cleanup_ReturnsDeleteError(w, fail) ==
  /\ call[w].op = "CreateNote" /\ call[w].pc = "cleanup"
  /\ LET c == call[w]
         spy == Append(c.calls, StoreCall("uploader.Delete", c.note.FilePath, c.noteID, 0, 0))
     IN  /\ files' = IF fail THEN files ELSE Remove(files, {c.note.FilePath})
         /\ call' = [call EXCEPT ![w] =
              [c EXCEPT !.pc = "done", !.calls = spy,
                        !.faults = c.faults \cup (IF fail THEN {"uploader"} ELSE {}),
                        !.retErr = IF fail
                                   THEN Wrap("failed to delete file from S3: ", S3Error)
                                   ELSE Wrap("failed to save note: ", c.err)]]
  /\ UNCHANGED <<rows, nextID, now, deleted, authVars, http>>

\* lines 71-76: the compensating s.uploader.Delete and the returned error
CreateNote_Cleanup(w, fail) ==
  /\ call[w].op = "CreateNote" /\ call[w].pc = "cleanup"
  /\ LET c == call[w]
         spy == Append(c.calls, StoreCall("uploader.Delete", c.note.FilePath, c.noteID, 0, 0))
     IN  /\ files' = IF fail THEN files ELSE Remove(files, {c.note.FilePath})
         /\ call' = [call EXCEPT ![w] =
              [c EXCEPT !.pc = "done", !.calls = spy,
                        !.faults = c.faults \cup (IF fail THEN {"uploader"} ELSE {}),
                        !.retErr = Wrap("failed to save note: ", c.err)]]
  /\ UNCHANGED <<rows, nextID, now, deleted, authVars, http>>

-----------------------------------------------------------------------------
(* NoteService.GetNoteByID *)

\* a lookup without the ownership check
GetNoteByIDResult_NoOwnerCheck(noteID, userEmail, fail) ==
  IF fail
  THEN [err |-> Wrap("failed to get note: ", DBError), note |-> NoNote]
  ELSE IF noteID \notin DOMAIN rows
  THEN [err |-> <<"note not found: ">> \o UUIDString(noteID), note |-> NoNote]
  ELSE [err |-> NoErr, note |-> rows[noteID]]

\* PostgresNoteRepository.GetNoteByID followed by the ownership check: the
\* error and the note returned
GetNoteByIDResult(noteID, userEmail, fail) ==
  IF fail
  THEN [err |-> Wrap("failed to get note: ", DBError), note |-> NoNote]
  ELSE IF noteID \notin DOMAIN rows
  THEN [err |-> <<"note not found: ">> \o UUIDString(noteID), note |-> NoNote]
  ELSE IF rows[noteID].UserEmail # userEmail
  THEN [err |-> <<"note not found">>, note |-> NoNote]
  ELSE [err |-> NoErr, note |-> rows[noteID]]

GetNoteByID(w, noteID, userEmail, fail) ==
  /\ call[w].pc = "idle"
  /\ LET r == GetNoteByIDResult(noteID, userEmail, fail)
     IN  call' = [call EXCEPT ![w] =
           [Idle EXCEPT !.op = "GetNoteByID", !.pc = "done",
                        !.noteID = noteID, !.userEmail = userEmail,
                        !.calls = <<StoreCall("repo.GetNoteByID", <<>>, noteID, 0, 0)>>,
                        !.faults = IF fail THEN {"repo"} ELSE {},
                        !.retErr = r.err, !.retNote = r.note]]
  /\ UNCHANGED <<rows, files, nextID, now, deleted, authVars, http>>

-----------------------------------------------------------------------------
(* NoteService.GetUserNotes and NoteHandler.GetNotes *)

\* a clamp that forgets the upper bound
ClampLimit_NoMax(limit) == IF limit <= 0 THEN DefaultLimit ELSE limit

\* GetUserNotes lines 114-116
ClampLimit(limit) == IF limit <= 0 \/ limit > MaxLimit THEN DefaultLimit ELSE limit

\* GetUserNotes lines 117-119
ClampOffset(offset) == IF offset < 0 THEN DefaultOffset ELSE offset

\* NoteHandler.GetNotes lines 134-141
HandlerLimit(limitStr) ==
  IF limitStr # <<>> /\ Atoi(limitStr).ok /\ Atoi(limitStr).val > 0
  THEN Atoi(limitStr).val ELSE DefaultLimit

\* NoteHandler.GetNotes lines 135-147
HandlerOffset(offsetStr) ==
  IF offsetStr # <<>> /\ Atoi(offsetStr).ok /\ Atoi(offsetStr).val >= 0
  THEN Atoi(offsetStr).val ELSE DefaultOffset

\* GetUserNotes lines 121-135: the repository query chosen by courseID
GetUserNotesQuery(c, userEmail, courseID, limit, offset, fail) ==
  LET byCourse == courseID # 0
      fn == IF byCourse THEN "repo.GetNotesByCourse" ELSE "repo.GetNotesByUser"
      spy == <<StoreCall(fn, <<>>, courseID, ClampLimit(limit), ClampOffset(offset))>>
  IN  IF fail
      THEN {[c EXCEPT !.pc = "done", !.calls = spy, !.faults = {"repo"},
                      !.retErr = Wrap("failed to get notes: ",
                                   Wrap(IF byCourse THEN "failed to get notes for course: "
                                                    ELSE "failed to get notes for user: ",
                                        DBError))]}
      ELSE {[c EXCEPT !.pc = "done", !.calls = spy, !.retNotes = notes] :
              notes \in IF byCourse
                        THEN GetNotesByCourse(userEmail, courseID,
                                              ClampLimit(limit), ClampOffset(offset))
                        ELSE GetNotesByUser(userEmail,
                                            ClampLimit(limit), ClampOffset(offset))}

\* a direct call of the service method
GetUserNotes(w, userEmail, courseID, limit, offset, fail) ==
  /\ call[w].pc = "idle"
  /\ \E c \in GetUserNotesQuery(
                [Idle EXCEPT !.op = "GetUserNotes", !.userEmail = userEmail,
                             !.courseID = courseID, !.limit = limit, !.offset = offset],
                userEmail, courseID, limit, offset, fail) :
        call' = [call EXCEPT ![w] = c]
  /\ UNCHANGED <<rows, files, nextID, now, deleted, authVars, http>>

\* GET /api/notes: the handler parses the query string and calls the service
GetNotes(w, userEmail, courseID, limitStr, offsetStr, fail) ==
  /\ call[w].pc = "idle"
  /\ \E c \in GetUserNotesQuery(
                [Idle EXCEPT !.op = "GetNotes", !.userEmail = userEmail,
                             !.courseID = courseID,
                             !.limitStr = limitStr, !.offsetStr = offsetStr,
                             !.limit = HandlerLimit(limitStr),
                             !.offset = HandlerOffset(offsetStr)],
                userEmail, courseID,
                HandlerLimit(limitStr), HandlerOffset(offsetStr), fail) :
        call' = [call EXCEPT ![w] = c]
  /\ UNCHANGED <<rows, files, nextID, now, deleted, authVars, http>>

-----------------------------------------------------------------------------
(* NoteService.DeleteNote *)

\* a delete that goes to the metadata store without resolving the note first
DeleteNote_SkipsLookup(w, noteID, userEmail, fail) ==
  /\ call[w].pc = "idle"
  /\ LET r == GetNoteByIDResult(noteID, userEmail, fail)
         c == [Idle EXCEPT !.op = "DeleteNote", !.noteID = noteID,
                           !.userEmail = userEmail,
                           !.faults = IF fail THEN {"repo"} ELSE {},
                           !.calls = <<StoreCall("repo.GetNoteByID", <<>>, noteID, 0, 0)>>]
     IN  call' = [call EXCEPT ![w] =
           IF fail
           THEN [c EXCEPT !.pc = "done", !.retErr = r.err]
           ELSE [c EXCEPT !.pc = "dbdelete", !.note = r.note]]
  /\ UNCHANGED <<rows, files, nextID, now, deleted, authVars, http>>

\* lines 140-144: s.GetNoteByID
DeleteNote(w, noteID, userEmail, fail) ==
  /\ call[w].pc = "idle"
  /\ LET r == GetNoteByIDResult(noteID, userEmail, fail)
         c == [Idle EXCEPT !.op = "DeleteNote", !.noteID = noteID,
                           !.userEmail = userEmail,
                           !.faults = IF fail THEN {"repo"} ELSE {},
                           !.calls = <<StoreCall("repo.GetNoteByID", <<>>, noteID, 0, 0)>>]
     IN  call' = [call EXCEPT ![w] =
           IF r.err # NoErr
           THEN [c EXCEPT !.pc = "done", !.retErr = r.err]
           ELSE [c EXCEPT !.pc = "dbdelete", !.note = r.note]]
  /\ UNCHANGED <<rows, files, nextID, now, deleted, authVars, http>>

\* a metadata delete that does not look at the number of rows affected
DeleteNote_Repo_IgnoresRowCount(w, fail) ==
  /\ call[w].op = "DeleteNote" /\ call[w].pc = "dbdelete"
  /\ LET c == call[w]
         spy == Append(c.calls, StoreCall("repo.DeleteNote", <<>>, c.noteID, 0, 0))
         hit == DeleteMatches(c.noteID, c.userEmail)
     IN  IF fail
         THEN /\ call' = [call EXCEPT ![w] =
                   [c EXCEPT !.pc = "done", !.calls = spy, !.faults = {"repo"},
                             !.retErr = Wrap("failed to delete note: ",
                                          Wrap("failed to delete note: ", DBError))]]
              /\ UNCHANGED <<rows, deleted>>
         ELSE /\ rows' = Remove(rows, hit)
              /\ deleted' = deleted \cup hit
              /\ call' = [call EXCEPT ![w] = [c EXCEPT !.pc = "s3delete", !.calls = spy]]
  /\ UNCHANGED <<files, nextID, now, authVars, http>>

\* a delete that removes the object before the metadata row
DeleteNote_Repo_ObjectFirst(w, fail) ==
  /\ call[w].op = "DeleteNote" /\ call[w].pc = "dbdelete"
  /\ LET c == call[w]
         spy == Append(c.calls, StoreCall("repo.DeleteNote", <<>>, c.noteID, 0, 0))
         hit == DeleteMatches(c.noteID, c.userEmail)
     IN  /\ files' = Remove(files, {c.note.FilePath})
         /\ IF fail
            THEN /\ call' = [call EXCEPT ![w] =
                      [c EXCEPT !.pc = "done", !.calls = spy, !.faults = {"repo"},
                                !.retErr = Wrap("failed to delete note: ",
                                             Wrap("failed to delete note: ", DBError))]]
                 /\ UNCHANGED <<rows, deleted>>
            ELSE IF hit = {}
            THEN /\ call' = [call EXCEPT ![w] =
                      [c EXCEPT !.pc = "done", !.calls = spy,
                                !.retErr = Wrap("failed to delete note: ",
                                             <<"note not found or not owned by user">>)]]
                 /\ UNCHANGED <<rows, deleted>>
            ELSE /\ rows' = Remove(rows, hit)
                 /\ deleted' = deleted \cup hit
                 /\ call' = [call EXCEPT ![w] = [c EXCEPT !.pc = "s3delete", !.calls = spy]]
  /\ UNCHANGED <<nextID, now, authVars, http>>

\* lines 146-150: s.repo.DeleteNote
DeleteNote_Repo(w, fail) ==
  /\ call[w].op = "DeleteNote" /\ call[w].pc = "dbdelete"
  /\ LET c == call[w]
         spy == Append(c.calls, StoreCall("repo.DeleteNote", <<>>, c.noteID, 0, 0))
         hit == DeleteMatches(c.noteID, c.userEmail)
     IN  IF fail
         THEN /\ call' = [call EXCEPT ![w] =
                   [c EXCEPT !.pc = "done", !.calls = spy, !.faults = {"repo"},
                             !.retErr = Wrap("failed to delete note: ",
                                          Wrap("failed to delete note: ", DBError))]]
              /\ UNCHANGED <<rows, deleted>>
         ELSE IF hit = {}
         THEN /\ call' = [call EXCEPT ![w] =
                   [c EXCEPT !.pc = "done", !.calls = spy,
                             !.retErr = Wrap("failed to delete note: ",
                                          <<"note not found or not owned by user">>)]]
              /\ UNCHANGED <<rows, deleted>>
         ELSE /\ rows' = Remove(rows, hit)
              /\ deleted' = deleted \cup hit
              /\ call' = [call EXCEPT ![w] = [c EXCEPT !.pc = "s3delete", !.calls = spy]]
  /\ UNCHANGED <<files, nextID, now, authVars, http>>

\* a delete that fails when the object delete fails
DeleteNote_Uploader_ReturnsError(w, fail) ==
  /\ call[w].op = "DeleteNote" /\ call[w].pc = "s3delete"
  /\ LET c == call[w]
         spy == Append(c.calls, StoreCall("uploader.Delete", c.note.FilePath, c.noteID, 0, 0))
     IN  /\ files' = IF fail THEN files ELSE Remove(files, {c.note.FilePath})
         /\ call' = [call EXCEPT ![w] =
              [c EXCEPT !.pc = "done", !.calls = spy,
                        !.faults = IF fail THEN {"uploader"} ELSE {},
                        !.retErr = IF fail
                                   THEN Wrap("failed to delete file: ", S3Error)
                                   ELSE NoErr]]
  /\ UNCHANGED <<rows, nextID, now, deleted, authVars, http>>

\* lines 152-159: the best-effort s.uploader.Delete
DeleteNote_Uploader(w, fail) ==
  /\ call[w].op = "DeleteNote" /\ call[w].pc = "s3delete"
  /\ LET c == call[w]
         spy == Append(c.calls, StoreCall("uploader.Delete", c.note.FilePath, c.noteID, 0, 0))
     IN  /\ files' = IF fail THEN files ELSE Remove(files, {c.note.FilePath})
         /\ call' = [call EXCEPT ![w] =
              [c EXCEPT !.pc = "done", !.calls = spy,
                        !.faults = IF fail THEN {"uploader"} ELSE {}]]
  /\ UNCHANGED <<rows, nextID, now, deleted, authVars, http>>

\* the caller takes the result; the worker serves the next request
Return(w) ==
  /\ call[w].pc = "done"
  /\ call' = [call EXCEPT ![w] = Idle]
  /\ UNCHANGED <<rows, files, nextID, now, deleted, authVars, http>>

-----------------------------------------------------------------------------
(* Inputs *)

OwnerA == <<"a","@","r","i","c","e",".","e","d","u">>
OwnerB == <<"b","@","r","i","c","e",".","e","d","u">>
Owners == {OwnerA, OwnerB}

PdfName      == <<"n",".","p","d","f">>
MixedPdfName == <<"a",".","b",".","P","d","f">>
TxtName      == <<"n",".","t","x","t">>
PdfTxtName   == <<"n",".","p","d","f",".","t","x","t">>
NoExtName    == <<"p","d","f">>

CreateInput(userEmail, title, courseID, header) ==
  [userEmail |-> userEmail, title |-> title, courseID |-> courseID, header |-> header]

BaseInput == CreateInput(OwnerA, 1, 1, Header(PdfName, 1))

\* the base input with one argument changed at a time to each boundary value
BoundaryInputs ==
  {BaseInput}
  \cup {[BaseInput EXCEPT !.userEmail = u] : u \in {OwnerB, <<>>}}
  \cup {[BaseInput EXCEPT !.title = n] : n \in {0, MaxTitleLen, MaxTitleLen + 1}}
  \cup {[BaseInput EXCEPT !.courseID = n] :
          n \in {0, CourseIDColumnLen, CourseIDColumnLen + 1,
                 MaxCourseIDLen, MaxCourseIDLen + 1}}
  \cup {[BaseInput EXCEPT !.header = Header(PdfName, n)] :
          n \in {0, MaxFileSize, MaxFileSize + 1}}
  \cup {[BaseInput EXCEPT !.header = Header(f, 1)] :
          f \in {MixedPdfName, TxtName, PdfTxtName, NoExtName, <<>>}}
  \cup {[BaseInput EXCEPT !.header = NoHeader]}

\* the inputs of the concurrent specification: a note of each owner
ConcurrentInputs ==
  {BaseInput, [BaseInput EXCEPT !.userEmail = OwnerB]}

\* a query parameter as sent, with what it denotes: absent, not a number,
\* or the number num
Param(str, kind, num) == [str |-> str, kind |-> kind, num |-> num]

LimitParams ==
  {Param(<<>>, "absent", 0),
   Param(<<"a","b","c">>, "text", 0),
   Param(<<"1","0","x">>, "text", 0),
   Param(<<"-">>, "text", 0),
   Param(<<"-","5">>, "number", 0 - 5),
   Param(<<"0">>, "number", 0),
   Param(<<"1">>, "number", 1),
   Param(<<"2">>, "number", 2),
   Param(<<"5","0">>, "number", 50),
   Param(<<"1","0","0">>, "number", 100),
   Param(<<"1","0","1">>, "number", 101),
   Param(<<"1","0","0","0">>, "number", 1000)}

OffsetParams ==
  {Param(<<>>, "absent", 0),
   Param(<<"x">>, "text", 0),
   Param(<<"-","5">>, "number", 0 - 5),
   Param(<<"0">>, "number", 0),
   Param(<<"1">>, "number", 1),
   Param(<<"+","2">>, "number", 2)}

Absent == Param(<<>>, "absent", 0)

ListRequest(userEmail, courseID, limit, offset, fail) ==
  [userEmail |-> userEmail, courseID |-> courseID,
   limit |-> limit, offset |-> offset, fail |-> fail]

\* GET /api/notes requests: the plain request with one part changed at a
\* time, and limit=1000&offset=-5
ListRequests ==
  {ListRequest(OwnerA, 0, l, Absent, FALSE) : l \in LimitParams}
  \cup {ListRequest(OwnerA, 0, Absent, o, FALSE) : o \in OffsetParams}
  \cup {ListRequest(OwnerA, 0, Param(<<"1","0","0","0">>, "number", 1000),
                    Param(<<"-","5">>, "number", 0 - 5), f) : f \in BOOLEAN}
  \cup {ListRequest(u, c, Param(<<"1">>, "number", 1), Param(<<"1">>, "number", 1), FALSE) :
          u \in Owners, c \in {0, 1}}

\* direct calls of GetUserNotes, built the same way
ListCalls ==
  {ListRequest(OwnerA, 0, l, DefaultOffset, FALSE) :
     l \in {0 - 1, 0, 1, 2, DefaultLimit, MaxLimit, MaxLimit + 1, 1000}}
  \cup {ListRequest(OwnerA, 0, DefaultLimit, o, FALSE) : o \in {0 - 5, 0, 1}}
  \cup {ListRequest(OwnerA, 0, 1000, 0 - 5, f) : f \in BOOLEAN}
  \cup {ListRequest(u, c, 1, 1, FALSE) : u \in Owners, c \in {0, 1}}
  \cup {ListRequest(OwnerA, c, DefaultLimit, DefaultOffset, FALSE) :
          c \in {1, CourseIDColumnLen}}

\* identifiers a caller may present: every identifier issued so far, and 0
\* for an identifier that no note has
KnownIDs == 0..nextID

-----------------------------------------------------------------------------
(* The note service under concurrent requests *)

Next ==
  \E w \in Workers :
    \/ \E in \in ConcurrentInputs :
         CreateNote(w, in.userEmail, in.title, in.courseID, in.header)
    \/ \E fail \in BOOLEAN : CreateNote_Upload(w, fail)
    \/ \E fail \in BOOLEAN : CreateNote_Insert(w, fail, now)
    \/ \E fail \in BOOLEAN : CreateNote_Cleanup(w, fail)
    \/ \E id \in KnownIDs, u \in Owners, fail \in BOOLEAN : GetNoteByID(w, id, u, fail)
    \/ \E u \in Owners, fail \in BOOLEAN :
         GetUserNotes(w, u, 0, DefaultLimit, DefaultOffset, fail)
    \/ \E id \in KnownIDs, u \in Owners, fail \in BOOLEAN : DeleteNote(w, id, u, fail)
    \/ \E fail \in BOOLEAN : DeleteNote_Repo(w, fail)
    \/ \E fail \in BOOLEAN : DeleteNote_Uploader(w, fail)
    \/ Return(w)

Spec == Init /\ [][Next]_vars

-----------------------------------------------------------------------------
(* The note service serving one request at a time, over the boundary inputs *)

SeqWorker == "w1"

SeqNext ==
  \/ \E in \in BoundaryInputs :
       CreateNote(SeqWorker, in.userEmail, in.title, in.courseID, in.header)
  \/ \E fail \in BOOLEAN : CreateNote_Upload(SeqWorker, fail)
  \/ \E fail \in BOOLEAN, t \in {now, now + 1} : CreateNote_Insert(SeqWorker, fail, t)
  \/ \E fail \in BOOLEAN : CreateNote_Cleanup(SeqWorker, fail)
  \/ \E id \in KnownIDs, u \in Owners, fail \in BOOLEAN :
       GetNoteByID(SeqWorker, id, u, fail)
  \/ \E q \in ListCalls :
       GetUserNotes(SeqWorker, q.userEmail, q.courseID, q.limit, q.offset, q.fail)
  \/ \E q \in ListRequests :
       GetNotes(SeqWorker, q.userEmail, q.courseID, q.limit.str, q.offset.str, q.fail)
  \/ \E id \in KnownIDs, u \in Owners, fail \in BOOLEAN :
       DeleteNote(SeqWorker, id, u, fail)
  \/ \E fail \in BOOLEAN : DeleteNote_Repo(SeqWorker, fail)
  \/ \E fail \in BOOLEAN : DeleteNote_Uploader(SeqWorker, fail)
  \/ Return(SeqWorker)

SeqSpec == Init /\ [][SeqNext]_vars

-----------------------------------------------------------------------------
(* The note service under owners and file names that contain '/' *)

\* owners: the two plain addresses, and an address that continues with
\* '/' and the identifier of a note created before
KeyOwners ==
  Owners \cup {OwnerA \o <<"/">> \o UUIDString(id) : id \in 1..nextID}

\* file names: the plain one, and names that start with the identifier of
\* a note created before, or with an owner and such an identifier
KeyFileNames ==
  {PdfName}
  \cup {UUIDString(id) \o <<"/">> \o PdfName : id \in 1..nextID}
  \cup {OwnerA \o <<"/">> \o UUIDString(id) \o <<"/">> \o PdfName : id \in 1..nextID}

KeyWorker == "w1"

KeyNext ==
  \/ \E u \in KeyOwners, f \in KeyFileNames :
       CreateNote(KeyWorker, u, 1, 1, Header(f, 1))
  \/ \E fail \in BOOLEAN : CreateNote_Upload(KeyWorker, fail)
  \/ \E fail \in BOOLEAN : CreateNote_Insert(KeyWorker, fail, now)
  \/ \E fail \in BOOLEAN : CreateNote_Cleanup(KeyWorker, fail)
  \/ \E id \in KnownIDs, u \in KeyOwners : DeleteNote(KeyWorker, id, u, FALSE)
  \/ \E fail \in BOOLEAN : DeleteNote_Repo(KeyWorker, fail)
  \/ \E fail \in BOOLEAN : DeleteNote_Uploader(KeyWorker, fail)
  \/ Return(KeyWorker)

KeySpec == Init /\ [][KeyNext]_vars

-----------------------------------------------------------------------------
(* The note service over the MockUploader: its files map is a plain Go map
   that Upload and Delete read and write without a lock, so an access of
   one worker can begin before the access of another has ended *)

\* the worker is inside an access of m.files
InMap(w) == call[w].pc \in {"mapassign", "mapaccess", "mapdelete"}

\* that access writes the map
WritesMap(w) == call[w].pc \in {"mapassign", "mapdelete"}

\* the access of w runs together with an access of another worker, and one
\* of the two writes: a data race
Raced(w) == \E v \in Workers \ {w} : InMap(v) /\ (WritesMap(w) \/ WritesMap(v))

\* what a map access can come to: it takes effect; or, in a data race, its
\* effect is lost or the runtime stops the process ("fatal error:
\* concurrent map writes")
MapOutcomes(w) == IF Raced(w) THEN {"done", "lost", "fatal"} ELSE {"done"}

Fatal(c) == [c EXCEPT !.pc = "done", !.panicked = TRUE]

\* the process has been stopped by the runtime
Crashed == \E w \in Workers : call[w].panicked

\* MockUploader.Upload lines 134-139: io.ReadAll, up to the map assignment
MockUploader_Upload(w) ==
  /\ call[w].op = "CreateNote" /\ call[w].pc = "upload"
  /\ LET c == call[w]
         spy == Append(c.calls, StoreCall("uploader.Upload", c.note.FilePath, c.noteID, 0, 0))
     IN  call' = [call EXCEPT ![w] = [c EXCEPT !.pc = "mapassign", !.calls = spy]]
  /\ UNCHANGED <<rows, files, nextID, now, deleted, authVars, http>>

\* MockUploader.Upload lines 141-143: m.files[key] = data, return nil
MockUploader_Upload_Assign(w, outcome) ==
  /\ call[w].op = "CreateNote" /\ call[w].pc = "mapassign"
  /\ outcome \in MapOutcomes(w)
  /\ LET c == call[w]
     IN  /\ files' = IF outcome = "done" THEN (c.note.FilePath :> c.noteID) @@ files
                     ELSE files
         /\ call' = [call EXCEPT ![w] =
              IF outcome = "fatal" THEN Fatal(c) ELSE [c EXCEPT !.pc = "insert"]]
  /\ UNCHANGED <<rows, nextID, now, deleted, authVars, http>>

\* MockUploader.Delete: the call, up to its lookup in the map
MockUploader_Delete(w) ==
  /\ call[w].op = "DeleteNote" /\ call[w].pc = "s3delete"
  /\ LET c == call[w]
         spy == Append(c.calls, StoreCall("uploader.Delete", c.note.FilePath, c.noteID, 0, 0))
     IN  call' = [call EXCEPT ![w] = [c EXCEPT !.pc = "mapaccess", !.calls = spy]]
  /\ UNCHANGED <<rows, files, nextID, now, deleted, authVars, http>>

\* MockUploader.Delete lines 153-156: _, exists := m.files[key]; the error
\* for a missing key is only logged by NoteService.DeleteNote
MockUploader_Delete_Access(w, outcome) ==
  /\ call[w].op = "DeleteNote" /\ call[w].pc = "mapaccess"
  /\ outcome \in MapOutcomes(w) \ {"lost"}
  /\ LET c == call[w]
     IN  call' = [call EXCEPT ![w] =
           IF outcome = "fatal" THEN Fatal(c)
           ELSE IF c.note.FilePath \notin DOMAIN files
           THEN [c EXCEPT !.pc = "done", !.faults = {"uploader"}]
           ELSE [c EXCEPT !.pc = "mapdelete"]]
  /\ UNCHANGED <<rows, files, nextID, now, deleted, authVars, http>>

\* MockUploader.Delete lines 157-159: delete(m.files, key), return nil
MockUploader_Delete_Delete(w, outcome) ==
  /\ call[w].op = "DeleteNote" /\ call[w].pc = "mapdelete"
  /\ outcome \in MapOutcomes(w)
  /\ LET c == call[w]
     IN  /\ files' = IF outcome = "done" THEN Remove(files, {c.note.FilePath}) ELSE files
         /\ call' = [call EXCEPT ![w] =
              IF outcome = "fatal" THEN Fatal(c) ELSE [c EXCEPT !.pc = "done"]]
  /\ UNCHANGED <<rows, nextID, now, deleted, authVars, http>>

\* requests served by concurrent workers that share the one MockUploader;
\* the metadata store is healthy, and nothing runs once the process has
\* been stopped
MockNext ==
  \E w \in Workers :
    \/ \E in \in ConcurrentInputs :
         ~Crashed /\ CreateNote(w, in.userEmail, in.title, in.courseID, in.header)
    \/ ~Crashed /\ MockUploader_Upload(w)
    \/ \E outcome \in {"done", "lost", "fatal"} :
         ~Crashed /\ MockUploader_Upload_Assign(w, outcome)
    \/ ~Crashed /\ CreateNote_Insert(w, FALSE, now)
    \/ \E id \in KnownIDs, u \in Owners : ~Crashed /\ DeleteNote(w, id, u, FALSE)
    \/ ~Crashed /\ DeleteNote_Repo(w, FALSE)
    \/ ~Crashed /\ MockUploader_Delete(w)
    \/ \E outcome \in {"done", "fatal"} :
         ~Crashed /\ MockUploader_Delete_Access(w, outcome)
    \/ \E outcome \in {"done", "lost", "fatal"} :
         ~Crashed /\ MockUploader_Delete_Delete(w, outcome)
    \/ ~Crashed /\ Return(w)

MockSpec == Init /\ [][MockNext]_vars

-----------------------------------------------------------------------------
(* AuthService *)

\* time.Time.Unix() and jwt.NewNumericDate: the whole seconds of a time
Unix(t) == t \div TicksPerSecond

Seconds(n) == n * TicksPerSecond

\* 24 * time.Hour
TokenLifetime == Seconds(TokenLifetimeHours * 60 * 60)

ProviderError == <<"oauth2: provider error">>

\* AuthService.isRiceEmail
isRiceEmail(email) ==
  IF email = <<>> THEN FALSE
  ELSE \/ HasSuffix(ToLower(email), <<"@","r","i","c","e",".","e","d","u">>)
       \/ Contains(ToLower(email), <<".","r","i","c","e",".","e","d","u">>)

\* a token that lives for 23 hours
generateJWT_23Hours(userInfo, t) ==
  LET claims == [Email |-> userInfo.Email, Name |-> userInfo.Name,
                 Picture |-> userInfo.Picture,
                 ExpiresAt |-> Unix(t + Seconds(23 * 60 * 60)),
                 IssuedAt |-> Unix(t), Issuer |-> Issuer]
  IN  Token("HS256", claims, Signature("HS256", claims, auth.jwtSecret))

\* AuthService.generateJWT with time.Now() = t
generateJWT(userInfo, t) ==
  LET claims == [Email |-> userInfo.Email, Name |-> userInfo.Name,
                 Picture |-> userInfo.Picture,
                 ExpiresAt |-> Unix(t + TokenLifetime),
                 IssuedAt |-> Unix(t), Issuer |-> Issuer]
  IN  Token("HS256", claims, Signature("HS256", claims, auth.jwtSecret))

\* the algorithms of *jwt.SigningMethodHMAC
SigningMethodHMAC == {"HS256", "HS384", "HS512"}

\* a parser that does not verify the signature
ParseWithClaims_NoSignatureCheck(tok, t) ==
  IF tok.alg \notin SigningMethodHMAC
  THEN <<"token is unverifiable: error while executing keyfunc: ",
         "unexpected signing method: ", tok.alg>>
  ELSE IF ~(t < Seconds(tok.claims.ExpiresAt))
  THEN <<"token has invalid claims: token is expired">>
  ELSE NoErr

\* jwt.ParseWithClaims with the key function of ValidateJWT, at time t: the
\* key function refuses a signing method that is not HMAC, the signature
\* is verified under a.jwtSecret, and then the claims are validated
ParseWithClaims(tok, t) ==
  IF tok.alg \notin SigningMethodHMAC
  THEN <<"token is unverifiable: error while executing keyfunc: ",
         "unexpected signing method: ", tok.alg>>
  ELSE IF tok.sig # Signature(tok.alg, tok.claims, auth.jwtSecret)
  THEN <<"token signature is invalid: signature is invalid">>
  ELSE IF ~(t < Seconds(tok.claims.ExpiresAt))
  THEN <<"token has invalid claims: token is expired">>
  ELSE NoErr

\* the part of a session that outlives a call
Between(s) ==
  [NoSession EXCEPT !.held = s.held, !.heldAt = s.heldAt, !.heldFor = s.heldFor,
                    !.issued = s.issued]

\* an exchange that requires the verified flag of every account
ExchangeCodeForToken_RequiresVerified(provider, userInfo) ==
  /\ session.pc = "idle"
  /\ LET s == [Between(session) EXCEPT !.op = "ExchangeCodeForToken", !.pc = "done",
                                      !.provider = provider, !.userInfo = userInfo,
                                      !.startedAt = now]
     IN  session' =
           IF provider = "exchange fails"
           THEN [s EXCEPT !.retErr = Wrap("code exchange failed: ", ProviderError)]
           ELSE IF provider = "userinfo fails"
           THEN [s EXCEPT !.retErr = Wrap("failed to get user info: ", ProviderError)]
           ELSE IF ~isRiceEmail(userInfo.Email)
           THEN [s EXCEPT !.retErr = <<"only Rice University emails are allowed">>]
           ELSE IF ~userInfo.Verified
           THEN [s EXCEPT !.retErr = <<"email not verified">>]
           ELSE [s EXCEPT !.retToken = generateJWT(userInfo, now),
                          !.held = generateJWT(userInfo, now),
                          !.heldAt = now, !.heldFor = userInfo]
  /\ UNCHANGED <<rows, files, nextID, now, call, deleted, auth, http>>

\* AuthService.ExchangeCodeForToken; provider says how the OAuth2 provider
\* answers and userInfo is what it resolves the code to
ExchangeCodeForToken(provider, userInfo) ==
  /\ session.pc = "idle"
  /\ LET s == [Between(session) EXCEPT !.op = "ExchangeCodeForToken", !.pc = "done",
                                      !.provider = provider, !.userInfo = userInfo,
                                      !.startedAt = now]
     IN  session' =
           IF provider = "exchange fails"
           THEN [s EXCEPT !.retErr = Wrap("code exchange failed: ", ProviderError)]
           ELSE IF provider = "userinfo fails"
           THEN [s EXCEPT !.retErr = Wrap("failed to get user info: ", ProviderError)]
           ELSE IF ~isRiceEmail(userInfo.Email)
           THEN [s EXCEPT !.retErr = <<"only Rice University emails are allowed">>]
           ELSE IF ~isRiceEmail(userInfo.Email) /\ ~userInfo.Verified
           THEN [s EXCEPT !.retErr = <<"email not verified">>]
           ELSE [s EXCEPT !.retToken = generateJWT(userInfo, now),
                          !.held = generateJWT(userInfo, now),
                          !.heldAt = now, !.heldFor = userInfo]
  /\ UNCHANGED <<rows, files, nextID, now, call, deleted, auth, http>>

\* ValidateJWT lines 205-227: the empty-token check and jwt.ParseWithClaims
ValidateJWT(tok) ==
  /\ session.pc = "idle"
  /\ LET s == [Between(session) EXCEPT !.op = "ValidateJWT", !.token = tok,
                                      !.startedAt = now]
     IN  session' =
           IF tok = NoToken
           THEN [s EXCEPT !.pc = "done", !.retErr = <<"empty token">>]
           ELSE IF ParseWithClaims(tok, now) # NoErr
           THEN [s EXCEPT !.pc = "done",
                          !.retErr = Wrap("invalid token: ", ParseWithClaims(tok, now))]
           ELSE [s EXCEPT !.pc = "expiry", !.claims = tok.claims]
  /\ UNCHANGED <<rows, files, nextID, now, call, deleted, auth, http>>

\* ValidateJWT lines 229-236: the second reading of the clock
ValidateJWT_Expiry ==
  /\ session.op = "ValidateJWT" /\ session.pc = "expiry"
  /\ session' =
       IF Unix(now) > session.claims.ExpiresAt
       THEN [session EXCEPT !.pc = "done", !.retErr = <<"token expired">>]
       ELSE [session EXCEPT !.pc = "done", !.retClaims = session.claims]
  /\ UNCHANGED <<rows, files, nextID, now, call, deleted, auth, http>>

\* the caller takes the result of an auth call
AuthReturn ==
  /\ session.pc = "done"
  /\ session' = Between(session)
  /\ UNCHANGED <<rows, files, nextID, now, call, deleted, auth, http>>

\* time passes
AdvanceClock(t) ==
  /\ t > now
  /\ now' = t
  /\ UNCHANGED <<rows, files, nextID, call, deleted, authVars, http>>

-----------------------------------------------------------------------------
(* Inputs of the auth service *)

Emails ==
  {<<"a","@","r","i","c","e",".","e","d","u">>,
   <<"A","@","R","i","c","e",".","E","D","U">>,
   <<"a","@","c","s",".","r","i","c","e",".","e","d","u">>,
   <<"a","@","g","m","a","i","l",".","c","o","m">>,
   <<"a","@","x","r","i","c","e",".","e","d","u">>,
   <<"a","@","r","i","c","e",".","e","d","u",".","c","o">>,
   <<"a","@","x",".","r","i","c","e",".","e","d","u",".","c","o">>,
   <<"a",".","r","i","c","e",".","e","d","u","@","x",".","c","o">>,
   <<"r","i","c","e",".","e","d","u">>,
   <<>>}

UserInfos ==
  {UserInfo(e, n, "picture", v) : e \in Emails, n \in {"Ann", "Bob"}, v \in BOOLEAN}

ProviderOutcomes == {"ok", "exchange fails", "userinfo fails"}

\* the times at which requests arrive: two times of issue, one of them in
\* the middle of a second, and each of them 23h59m, 24h less a tick, 24h,
\* 24h and a tick, and 24h1s later
IssueInstants == {1, TicksPerSecond}

Instants ==
  IssueInstants
  \cup {t + d : t \in IssueInstants,
                d \in {Seconds(23 * 60 * 60 + 59 * 60), Seconds(24 * 60 * 60) - 1,
                       Seconds(24 * 60 * 60), Seconds(24 * 60 * 60) + 1,
                       Seconds(24 * 60 * 60 + 1)}}

\* claims an attacker writes for itself
ForgedClaims ==
  [Email |-> <<"a","@","r","i","c","e",".","e","d","u">>, Name |-> "Ann",
   Picture |-> "picture", ExpiresAt |-> Unix(now) + 60, IssuedAt |-> Unix(now),
   Issuer |-> Issuer]

\* the token strings a client may present: none, the one it holds, that one
\* with its claims rewritten, and tokens it made without the secret
Presentable ==
  {NoToken, session.held,
   Token("none", ForgedClaims, NoSignature),
   Token("HS256", ForgedClaims, Signature("HS256", ForgedClaims, "guess"))}
  \cup (IF session.held = NoToken THEN {}
        ELSE {[session.held EXCEPT !.claims = ForgedClaims]})

\* the claims of the held token under the other signing methods, signed
\* with the secret of the service or with another key
OtherAlgorithms ==
  IF session.held = NoToken THEN {}
  ELSE {Token(a, session.held.claims, Signature(a, session.held.claims, k)) :
          a \in {"HS384", "HS512", "RS256"}, k \in {auth.jwtSecret, "guess"}}

AuthNext ==
  \/ \E p \in ProviderOutcomes, u \in UserInfos : ExchangeCodeForToken(p, u)
  \/ \E tok \in Presentable \cup OtherAlgorithms : ValidateJWT(tok)
  \/ ValidateJWT_Expiry
  \/ AuthReturn
  \/ \E t \in Instants : AdvanceClock(t)

AuthSpec == Init /\ [][AuthNext]_vars

\* the service built by NewRouter when JWT_SECRET is not set:
\* NewAuthService(provider, "") keeps the empty key
EmptySecretInit ==
  /\ rows = <<>>
  /\ files = <<>>
  /\ nextID = 0
  /\ now = 1
  /\ call = [w \in Workers |-> Idle]
  /\ deleted = {}
  /\ auth = [jwtSecret |-> ""]
  /\ session = NoSession
  /\ http = NoHttp

\* tokens signed with the empty key, which anyone can make
EmptyKeyTokens ==
  {Token("HS256", ForgedClaims, Signature("HS256", ForgedClaims, ""))}

EmptySecretNext ==
  \/ \E p \in ProviderOutcomes, u \in UserInfos : ExchangeCodeForToken(p, u)
  \/ \E tok \in Presentable \cup EmptyKeyTokens : ValidateJWT(tok)
  \/ ValidateJWT_Expiry
  \/ AuthReturn
  \/ \E t \in Instants : AdvanceClock(t)

EmptySecretSpec == EmptySecretInit /\ [][EmptySecretNext]_vars

-----------------------------------------------------------------------------
(* HTTP layer: JWTMiddleware, NoteHandler and AuthHandler *)

NoteRoutes ==
  {"POST /api/notes", "GET /api/notes", "GET /api/notes/{id}", "DELETE /api/notes/{id}"}

\* http.Error(w, text, status)
TextBody(text) == [NoBody EXCEPT !.kind = "text", !.text = text]

\* the ErrorResponse of AuthHandler.sendErrorResponse
ErrorBody(error, message) ==
  [NoBody EXCEPT !.kind = "error", !.error = error, !.message = message]

\* the response is written and the request is over
Responded(h, status, body) ==
  [h EXCEPT !.pc = "responded", !.status = status, !.body = body]

\* AuthService.ValidateJWT with both readings of the clock at time t
ValidateJWTResult(tok, t) ==
  IF tok = NoToken
  THEN [err |-> <<"empty token">>, claims |-> NoClaims]
  ELSE IF ParseWithClaims(tok, t) # NoErr
  THEN [err |-> Wrap("invalid token: ", ParseWithClaims(tok, t)), claims |-> NoClaims]
  ELSE IF Unix(t) > tok.claims.ExpiresAt
  THEN [err |-> <<"token expired">>, claims |-> NoClaims]
  ELSE [err |-> NoErr, claims |-> tok.claims]

\* AuthService.ExchangeCodeForToken at time t: the error and the AuthResult
ExchangeCodeForTokenResult(provider, userInfo, t) ==
  IF provider = "exchange fails"
  THEN [err |-> Wrap("code exchange failed: ", ProviderError), JWT |-> NoToken]
  ELSE IF provider = "userinfo fails"
  THEN [err |-> Wrap("failed to get user info: ", ProviderError), JWT |-> NoToken]
  ELSE IF ~isRiceEmail(userInfo.Email)
  THEN [err |-> <<"only Rice University emails are allowed">>, JWT |-> NoToken]
  ELSE IF ~isRiceEmail(userInfo.Email) /\ ~userInfo.Verified
  THEN [err |-> <<"email not verified">>, JWT |-> NoToken]
  ELSE [err |-> NoErr, JWT |-> generateJWT(userInfo, t)]

\* a middleware that reads the cookie first and the header only without one
TokenString_CookieFirst(req) ==
  IF req.cookie.present
  THEN [found |-> TRUE, token |-> req.cookie.value]
  ELSE IF req.authHeader.scheme = "Bearer" /\ req.authHeader.token # NoToken
  THEN [found |-> TRUE, token |-> req.authHeader.token]
  ELSE [found |-> FALSE, token |-> NoToken]

\* JWTMiddleware lines 403-418: the token string of a request, if it has one
TokenString(req) ==
  IF req.authHeader.scheme = "Bearer" /\ req.authHeader.token # NoToken
  THEN [found |-> TRUE, token |-> req.authHeader.token]
  ELSE IF ~req.cookie.present
  THEN [found |-> FALSE, token |-> NoToken]
  ELSE [found |-> TRUE, token |-> req.cookie.value]

\* JWTMiddleware in front of the routes under /api/notes
JWTMiddleware(req) ==
  /\ http.pc = "idle"
  /\ req.route \in NoteRoutes
  /\ LET h == [NoHttp EXCEPT !.req = req, !.at = now]
         t == TokenString(req)
         v == ValidateJWTResult(t.token, now)
     IN  http' =
           IF ~t.found
           THEN Responded(h, 401, TextBody(<<"Authentication required">>))
           ELSE IF v.err # NoErr
           THEN Responded(h, 401, TextBody(<<"Invalid or expired token">>))
           ELSE [h EXCEPT !.pc = "handler", !.hasUser = TRUE, !.user = v.claims]
  /\ UNCHANGED <<rows, files, nextID, now, call, deleted, authVars>>

\* what a note handler does when the context holds no user
Unauthenticated ==
  /\ http' = Responded(http, 401, TextBody(<<"Authentication required">>))
  /\ UNCHANGED <<rows, files, nextID, now, call, deleted, authVars>>

\* a note handler answers 400 before it calls the service
BadRequest(text) ==
  /\ http' = Responded(http, 400, TextBody(text))
  /\ UNCHANGED <<rows, files, nextID, now, call, deleted, authVars>>

\* a handler that records the owner named in the form
NoteHandler_CreateNote_OwnerFromForm(w) ==
  /\ http.pc = "handler" /\ http.req.route = "POST /api/notes"
  /\ call[w].pc = "idle"
  /\ IF ~http.hasUser THEN Unauthenticated
     ELSE IF ~http.req.formOK THEN BadRequest(<<"Invalid form data">>)
     ELSE IF http.req.title = 0 \/ http.req.courseID = 0
     THEN BadRequest(<<"Title and course_id are required">>)
     ELSE IF ~http.req.file.present THEN BadRequest(<<"File is required">>)
     ELSE CreateNote(w, IF http.req.owner # <<>> THEN http.req.owner ELSE http.user.Email,
                     http.req.title, http.req.courseID, http.req.file)

\* NoteHandler.CreateNote lines 63-98, up to its call of the service
NoteHandler_CreateNote(w) ==
  /\ http.pc = "handler" /\ http.req.route = "POST /api/notes"
  /\ call[w].pc = "idle"
  /\ IF ~http.hasUser THEN Unauthenticated
     ELSE IF ~http.req.formOK THEN BadRequest(<<"Invalid form data">>)
     ELSE IF http.req.title = 0 \/ http.req.courseID = 0
     THEN BadRequest(<<"Title and course_id are required">>)
     ELSE IF ~http.req.file.present THEN BadRequest(<<"File is required">>)
     ELSE CreateNote(w, http.user.Email, http.req.title, http.req.courseID, http.req.file)

\* NoteHandler.GetNotes lines 119-150
NoteHandler_GetNotes(w, fail) ==
  /\ http.pc = "handler" /\ http.req.route = "GET /api/notes"
  /\ call[w].pc = "idle"
  /\ IF ~http.hasUser THEN Unauthenticated
     ELSE GetNotes(w, http.user.Email, http.req.courseID,
                   http.req.limitStr, http.req.offsetStr, fail)

\* NoteHandler.GetNote lines 169-188
NoteHandler_GetNote(w, fail) ==
  /\ http.pc = "handler" /\ http.req.route = "GET /api/notes/{id}"
  /\ call[w].pc = "idle"
  /\ IF ~http.hasUser THEN Unauthenticated
     ELSE IF ~http.req.id.valid THEN BadRequest(<<"Invalid note ID">>)
     ELSE GetNoteByID(w, http.req.id.id, http.user.Email, fail)

\* NoteHandler.DeleteNote lines 207-226
NoteHandler_DeleteNote(w, fail) ==
  /\ http.pc = "handler" /\ http.req.route = "DELETE /api/notes/{id}"
  /\ call[w].pc = "idle"
  /\ IF ~http.hasUser THEN Unauthenticated
     ELSE IF ~http.req.id.valid THEN BadRequest(<<"Invalid note ID">>)
     ELSE DeleteNote(w, http.req.id.id, http.user.Email, fail)

\* what each note handler writes once its service call has returned c
HandlerResponse(h, c) ==
  IF h.req.route = "POST /api/notes"
  THEN IF c.retErr # NoErr
       THEN Responded(h, 400, TextBody(c.retErr))
       ELSE Responded(h, 201, [NoBody EXCEPT !.kind = "note", !.note = c.retNote])
  ELSE IF h.req.route = "GET /api/notes"
  THEN IF c.retErr # NoErr
       THEN Responded(h, 500, TextBody(<<"Failed to get notes">>))
       ELSE Responded(h, 200, [NoBody EXCEPT !.kind = "notes", !.notes = c.retNotes])
  ELSE IF h.req.route = "GET /api/notes/{id}"
  THEN IF c.retErr # NoErr
       THEN Responded(h, 404, TextBody(<<"Note not found">>))
       ELSE Responded(h, 200, [NoBody EXCEPT !.kind = "note", !.note = c.retNote])
  ELSE IF c.retErr # NoErr
       THEN Responded(h, 500, TextBody(<<"Failed to delete note">>))
       ELSE Responded(h, 204, NoBody)

\* the service call of the request has returned and the handler answers
NoteHandler_Respond(w) ==
  /\ http.pc = "handler"
  /\ call[w].pc = "done"
  /\ http' = [HandlerResponse(http, call[w]) EXCEPT !.served = call[w]]
  /\ call' = [call EXCEPT ![w] = Idle]
  /\ UNCHANGED <<rows, files, nextID, now, deleted, authVars>>

\* a session cookie that scripts of the page can read
setJWTCookie_NotHttpOnly(jwt) ==
  [Name |-> "jwt", Value |-> jwt, Path |-> "/", HttpOnly |-> FALSE, Secure |-> TRUE,
   SameSite |-> "Strict", MaxAge |-> 24 * 60 * 60]

\* AuthHandler.setJWTCookie
setJWTCookie(jwt) ==
  [Name |-> "jwt", Value |-> jwt, Path |-> "/", HttpOnly |-> TRUE, Secure |-> TRUE,
   SameSite |-> "Strict", MaxAge |-> 24 * 60 * 60]

DashboardURL == "http://localhost:3000/dashboard"

\* AuthHandler.GoogleCallback lines 100-111: the status for a service error
CallbackError(h, err) ==
  IF err = <<"only Rice University emails are allowed">>
  THEN Responded(h, 403, ErrorBody("non_rice_email",
                                    "Only Rice University email addresses are allowed"))
  ELSE IF err = <<"email not verified">>
  THEN Responded(h, 401, ErrorBody("unverified_email", "Email address must be verified"))
  ELSE IF err = <<"invalid authorization code">>
  THEN Responded(h, 401, ErrorBody("invalid_code", "Invalid authorization code"))
  ELSE Responded(h, 500, ErrorBody("auth_error", "Authentication failed"))

\* GoogleOAuth2Provider.GetAuthURL: the authorization URL carries the state
GetAuthURL(state) == "https://accounts.google.com/o/oauth2/auth?state=" \o state

\* AuthService.generateState: sixteen random bytes in hex
generateState == "00112233445566778899aabbccddeeff"

\* AuthService.GetGoogleAuthURL (GoogleLogin never passes an empty state)
GetGoogleAuthURL(state) ==
  GetAuthURL(IF state = "" THEN generateState ELSE state)

\* AuthHandler.GoogleLogin lines 47-55: the state of the query string, or
\* one made of the X-Request-ID header, or "auth_request"
LoginState(req) ==
  IF req.state # "" THEN req.state
  ELSE IF "auth_" \o req.requestID # "auth_" THEN "auth_" \o req.requestID
  ELSE "auth_request"

\* AuthHandler.GoogleLogin: redirects to the provider; the server keeps
\* nothing of the state it sent
GoogleLogin(req) ==
  /\ http.pc = "idle"
  /\ req.route = "GET /api/auth/google"
  /\ http' = [Responded([NoHttp EXCEPT !.req = req, !.at = now], 307, NoBody) EXCEPT
                !.location = GetGoogleAuthURL(LoginState(req))]
  /\ session' = [session EXCEPT !.issued = @ \cup {LoginState(req)}]
  /\ UNCHANGED <<rows, files, nextID, now, call, deleted, auth>>

\* a callback that answers 400 to a state GoogleLogin did not send
GoogleCallback_ChecksState(req, provider, userInfo) ==
  /\ http.pc = "idle"
  /\ req.route = "GET /api/auth/google/callback"
  /\ LET h == [NoHttp EXCEPT !.req = req, !.at = now]
         r == ExchangeCodeForTokenResult(provider, userInfo, now)
     IN  IF req.error # ""
         THEN /\ http' = Responded(h, 401, ErrorBody("access_denied", "User denied access"))
              /\ UNCHANGED session
         ELSE IF req.code = ""
         THEN /\ http' = Responded(h, 400, ErrorBody("missing_code",
                                                      "Authorization code is required"))
              /\ UNCHANGED session
         ELSE IF req.state = ""
         THEN /\ http' = Responded(h, 400, ErrorBody("missing_state",
                                                      "State parameter is required"))
              /\ UNCHANGED session
         ELSE IF req.state \notin session.issued
         THEN /\ http' = Responded(h, 400, ErrorBody("invalid_state",
                                                      "State parameter is not valid"))
              /\ UNCHANGED session
         ELSE IF r.err # NoErr
         THEN /\ http' = CallbackError([h EXCEPT !.exchange = Exchange(provider, userInfo, r)],
                                       r.err)
              /\ UNCHANGED session
         ELSE /\ http' = [Responded(h, 307, NoBody) EXCEPT
                            !.exchange = Exchange(provider, userInfo, r),
                            !.setCookie = setJWTCookie(r.JWT),
                            !.location = DashboardURL]
              /\ session' = [Between(session) EXCEPT
                               !.held = r.JWT, !.heldAt = now, !.heldFor = userInfo]
  /\ UNCHANGED <<rows, files, nextID, now, call, deleted, auth>>

\* AuthHandler.GoogleCallback; provider and userInfo say how the OAuth2
\* provider answers the exchange of req.code
GoogleCallback(req, provider, userInfo) ==
  /\ http.pc = "idle"
  /\ req.route = "GET /api/auth/google/callback"
  /\ LET h == [NoHttp EXCEPT !.req = req, !.at = now]
         r == ExchangeCodeForTokenResult(provider, userInfo, now)
     IN  IF req.error # ""
         THEN /\ http' = Responded(h, 401, ErrorBody("access_denied", "User denied access"))
              /\ UNCHANGED session
         ELSE IF req.code = ""
         THEN /\ http' = Responded(h, 400, ErrorBody("missing_code",
                                                      "Authorization code is required"))
              /\ UNCHANGED session
         ELSE IF req.state = ""
         THEN /\ http' = Responded(h, 400, ErrorBody("missing_state",
                                                      "State parameter is required"))
              /\ UNCHANGED session
         ELSE IF r.err # NoErr
         THEN /\ http' = CallbackError([h EXCEPT !.exchange = Exchange(provider, userInfo, r)],
                                       r.err)
              /\ UNCHANGED session
         ELSE /\ http' = [Responded(h, 307, NoBody) EXCEPT
                            !.exchange = Exchange(provider, userInfo, r),
                            !.setCookie = setJWTCookie(r.JWT),
                            !.location = DashboardURL]
              /\ session' = [Between(session) EXCEPT
                               !.held = r.JWT, !.heldAt = now, !.heldFor = userInfo]
  /\ UNCHANGED <<rows, files, nextID, now, call, deleted, auth>>

\* AuthHandler.Me
Me(req) ==
  /\ http.pc = "idle"
  /\ req.route = "GET /api/auth/me"
  /\ LET h == [NoHttp EXCEPT !.req = req, !.at = now]
         v == ValidateJWTResult(req.cookie.value, now)
     IN  http' =
           IF ~req.cookie.present
           THEN Responded(h, 401, ErrorBody("no_token", "Authentication required"))
           ELSE IF v.err # NoErr
           THEN Responded(h, 401, ErrorBody("invalid_token", "Invalid or expired token"))
           ELSE Responded(h, 200, [NoBody EXCEPT !.kind = "user",
                                                 !.email = v.claims.Email,
                                                 !.name = v.claims.Name,
                                                 !.picture = v.claims.Picture])
  /\ UNCHANGED <<rows, files, nextID, now, call, deleted, authVars>>

\* the client has its response and may send the next request
NextRequest ==
  /\ http.pc = "responded"
  /\ http' = NoHttp
  /\ UNCHANGED <<rows, files, nextID, now, call, deleted, authVars>>

-----------------------------------------------------------------------------
(* Requests to the HTTP layer *)

\* the worker that serves the requests of the one client
ApiWorker == "w1"

\* how a client presents a token: not at all, in the Authorization header,
\* in the jwt cookie, or both
Credentials ==
  {[authHeader |-> NoAuthHeader, cookie |-> NoCookie]}
  \cup {[authHeader |-> AuthHeader("Bearer", tok), cookie |-> NoCookie] :
          tok \in Presentable}
  \cup {[authHeader |-> NoAuthHeader, cookie |-> Cookie(tok)] : tok \in Presentable}
  \cup {[authHeader |-> AuthHeader("Basic", session.held), cookie |-> NoCookie],
        [authHeader |-> AuthHeader("Basic", NoToken), cookie |-> Cookie(session.held)],
        [authHeader |-> AuthHeader("Bearer", Token("none", ForgedClaims, NoSignature)),
         cookie |-> Cookie(session.held)],
        [authHeader |-> AuthHeader("Bearer", NoToken), cookie |-> Cookie(session.held)],
        [authHeader |-> AuthHeader("Bearer", session.held),
         cookie |-> Cookie(Token("none", ForgedClaims, NoSignature))]}

\* the credentials of a client that sends the cookie it was given
HeldCookie == [authHeader |-> NoAuthHeader, cookie |-> Cookie(session.held)]

Request(route, cred) ==
  [NoRequest EXCEPT !.route = route, !.authHeader = cred.authHeader,
                    !.cookie = cred.cookie]

\* a well-formed upload
UploadForm(cred) ==
  [Request("POST /api/notes", cred) EXCEPT
     !.title = 1, !.courseID = 1, !.file = Header(PdfName, 1)]

\* requests to the note routes: each route under every credential (with the
\* newest identifier), and under the held cookie with one input changed at
\* a time
NoteRequests ==
  {UploadForm(cred) : cred \in Credentials}
  \cup {Request("GET /api/notes", cred) : cred \in Credentials}
  \cup {[Request(route, cred) EXCEPT !.id = NoteIDParam(TRUE, nextID)] :
          route \in {"GET /api/notes/{id}", "DELETE /api/notes/{id}"},
          cred \in Credentials}
  \cup {[Request(route, HeldCookie) EXCEPT !.id = NoteIDParam(TRUE, id)] :
          route \in {"GET /api/notes/{id}", "DELETE /api/notes/{id}"},
          id \in KnownIDs}
  \cup {[UploadForm(HeldCookie) EXCEPT !.owner = OwnerB],
        [UploadForm(HeldCookie) EXCEPT !.owner = OwnerA],
        [UploadForm(HeldCookie) EXCEPT !.file = Header(TxtName, 1)],
        [UploadForm(HeldCookie) EXCEPT !.file = NoHeader],
        [UploadForm(HeldCookie) EXCEPT !.title = 0],
        [UploadForm(HeldCookie) EXCEPT !.courseID = CourseIDColumnLen + 1],
        [UploadForm(HeldCookie) EXCEPT !.formOK = FALSE],
        [Request("GET /api/notes", HeldCookie) EXCEPT !.owner = OwnerB],
        [Request("GET /api/notes/{id}", HeldCookie) EXCEPT !.id = NoteIDParam(FALSE, 0)],
        [Request("DELETE /api/notes/{id}", HeldCookie) EXCEPT !.id = NoteIDParam(FALSE, 0)]}

MeRequests == {Request("GET /api/auth/me", cred) : cred \in Credentials}

\* the callback of a completed consent, by a client with or without a cookie
Callback(cred) ==
  [Request("GET /api/auth/google/callback", cred) EXCEPT
     !.code = "code", !.state = "state"]

GoodCallbacks ==
  {Callback(cred) : cred \in {[authHeader |-> NoAuthHeader, cookie |-> NoCookie],
                              HeldCookie}}

\* callbacks that lack a parameter or carry the provider's error parameter
BadCallbacks ==
  {[Callback(HeldCookie) EXCEPT !.code = ""],
   [Callback(HeldCookie) EXCEPT !.state = ""],
   [Callback(HeldCookie) EXCEPT !.code = "", !.state = ""],
   [Callback(HeldCookie) EXCEPT !.error = "access_denied"],
   [Callback(HeldCookie) EXCEPT !.error = "access_denied", !.code = "", !.state = ""]}

\* the accounts the provider resolves a code to
ApiUserInfos ==
  {UserInfo(OwnerA, "Ann", "picture", v) : v \in BOOLEAN}
  \cup {UserInfo(OwnerB, "Bob", "picture", TRUE)}
  \cup {UserInfo(<<"a","@","g","m","a","i","l",".","c","o","m">>, "Ann", "picture", v) :
          v \in BOOLEAN}

\* a time after every token issued at the start has expired
ApiInstants == {Seconds(24 * 60 * 60 + 2)}

ApiNext ==
  \/ \E req \in GoodCallbacks, p \in ProviderOutcomes, u \in ApiUserInfos :
       GoogleCallback(req, p, u)
  \/ \E req \in BadCallbacks : GoogleCallback(req, "ok", UserInfo(OwnerA, "Ann", "picture", TRUE))
  \/ \E req \in MeRequests : Me(req)
  \/ \E req \in NoteRequests : JWTMiddleware(req)
  \/ NoteHandler_CreateNote(ApiWorker)
  \/ \E fail \in BOOLEAN : NoteHandler_GetNotes(ApiWorker, fail)
  \/ \E fail \in BOOLEAN : NoteHandler_GetNote(ApiWorker, fail)
  \/ \E fail \in BOOLEAN : NoteHandler_DeleteNote(ApiWorker, fail)
  \/ \E fail \in BOOLEAN : CreateNote_Upload(ApiWorker, fail)
  \/ \E fail \in BOOLEAN : CreateNote_Insert(ApiWorker, fail, now)
  \/ CreateNote_Cleanup(ApiWorker, FALSE)
  \/ \E fail \in BOOLEAN : DeleteNote_Repo(ApiWorker, fail)
  \/ DeleteNote_Uploader(ApiWorker, FALSE)
  \/ NoteHandler_Respond(ApiWorker)
  \/ NextRequest
  \/ \E t \in ApiInstants : AdvanceClock(t)

ApiSpec == Init /\ [][ApiNext]_vars

-----------------------------------------------------------------------------
(* The OAuth2 flow: logins, and callbacks with every state *)

\* GET /api/auth/google with a state, with an X-Request-ID, with neither
LoginRequests ==
  {[Request("GET /api/auth/google", HeldCookie) EXCEPT !.state = "mine"],
   [Request("GET /api/auth/google", HeldCookie) EXCEPT !.requestID = "r1"],
   Request("GET /api/auth/google", HeldCookie)}

\* the states a callback may carry: each state a login can send, and one
\* that no login sends
CallbackStates == {"mine", "auth_r1", "auth_request", "forged"}

StateCallbacks ==
  {[Callback(HeldCookie) EXCEPT !.state = st] : st \in CallbackStates}

LoginNext ==
  \/ \E req \in LoginRequests : GoogleLogin(req)
  \/ \E req \in StateCallbacks, p \in ProviderOutcomes, u \in ApiUserInfos :
       GoogleCallback(req, p, u)
  \/ \E req \in BadCallbacks : GoogleCallback(req, "ok", UserInfo(OwnerA, "Ann", "picture", TRUE))
  \/ \E req \in MeRequests : Me(req)
  \/ NextRequest
  \/ \E t \in ApiInstants : AdvanceClock(t)

LoginSpec == Init /\ [][LoginNext]_vars

-----------------------------------------------------------------------------
(* Properties of the note service *)

Done(w, op) == call[w].pc = "done" /\ call[w].op = op

\* the file name ends in .pdf, in any letter case
EndsInPdf(name) ==
  /\ Len(name) >= 4
  /\ ToLower(SubSeq(name, Len(name) - 3, Len(name))) = <<".","p","d","f">>

\* a valid CreateNote input: non-empty owner, title of 1..255 characters,
\* courseID of 1..50 characters, a file of 1 byte to 10 MiB named *.pdf
ValidCreateInput(c) ==
  /\ c.userEmail # <<>>
  /\ c.title >= 1 /\ c.title <= 255
  /\ c.courseID >= 1 /\ c.courseID <= 50
  /\ c.header.present
  /\ c.header.Size >= 1 /\ c.header.Size <= 10485760
  /\ EndsInPdf(c.header.Filename)

ValidationErrors ==
  {<<"user email is required">>, <<"title is required">>,
   <<"title must be 255 characters or less">>, <<"course ID is required">>,
   <<"course ID must be 50 characters or less">>, <<"file is required">>,
   <<"file cannot be empty">>, <<"file size must be less than %d bytes">>,
   <<"only PDF files are allowed">>}

\* the fields of a stored note that CreateNote takes from its input
SameFields(note, c) ==
  /\ note.Title = c.title
  /\ note.CourseID = c.courseID
  /\ note.FileName = c.header.Filename
  /\ note.FileSize = c.header.Size
  /\ note.ContentType = "application/pdf"
  /\ note.UploadedAt # 0

\* C1: with both stores healthy every valid CreateNote succeeds, and
\* GetNoteByID(returned id, same owner) then returns a record with the same
\* title, courseID, file name, size, content type application/pdf and the
\* creation timestamp set.
C1_ValidCreateSucceeds ==
  \A w \in Workers :
    (Done(w, "CreateNote") /\ call[w].faults = {} /\ ValidCreateInput(call[w])) =>
      /\ ~call[w].panicked
      /\ call[w].retErr = NoErr
      /\ call[w].retNote.ID \in DOMAIN rows
      /\ LET r == GetNoteByIDResult(call[w].retNote.ID, call[w].userEmail, FALSE)
         IN  r.err = NoErr /\ SameFields(r.note, call[w])

\* C2: every CreateNote with an invalid input fails with a validation error
\* and calls neither uploader.Upload, uploader.Delete nor repo.CreateNote.
C2_InvalidCreateFailsFast ==
  \A w \in Workers :
    (Done(w, "CreateNote") /\ ~ValidCreateInput(call[w])) =>
      /\ ~call[w].panicked
      /\ call[w].retErr \in ValidationErrors
      /\ call[w].calls = <<>>

\* the text of an error with the note identifier it quotes left open
ErrorTemplate(err, id) ==
  [i \in 1..Len(err) |-> IF err[i] = ToString(id) THEN "%s" ELSE err[i]]

\* C3: GetNoteByID(id, owner2) on an existing note of another owner returns
\* exactly the same error as GetNoteByID(randomID, owner2) on an identifier
\* that no note has.
C3_SameNotFoundError ==
  \A w1, w2 \in Workers :
    (/\ Done(w1, "GetNoteByID") /\ Done(w2, "GetNoteByID")
     /\ call[w1].faults = {} /\ call[w2].faults = {}
     /\ call[w1].userEmail = call[w2].userEmail
     /\ call[w1].noteID \in DOMAIN rows
     /\ rows[call[w1].noteID].UserEmail # call[w1].userEmail
     /\ call[w2].noteID = 0) =>
      /\ call[w1].retNote = NoNote /\ call[w2].retNote = NoNote
      /\ ErrorTemplate(call[w1].retErr, call[w1].noteID)
           = ErrorTemplate(call[w2].retErr, call[w2].noteID)

\* the ownership check of DeleteNote let the call through to repo.DeleteNote
PassedCheck(w) == Len(call[w].calls) >= 2

\* the errors that say the note is not there
NotFoundErrors(id) ==
  {<<"note not found: ", ToString(id)>>,
   <<"note not found">>,
   <<"failed to delete note: ", "note not found or not owned by user">>}

RacingDeletes(w1, w2) ==
  /\ w1 # w2
  /\ Done(w1, "DeleteNote") /\ Done(w2, "DeleteNote")
  /\ call[w1].noteID = call[w2].noteID
  /\ call[w1].userEmail = call[w2].userEmail
  /\ "repo" \notin call[w1].faults \cup call[w2].faults
  /\ PassedCheck(w1)

\* C4: of two concurrent DeleteNote(id, owner) calls on the same existing
\* note, with the metadata store healthy, exactly one returns success and
\* the other a not-found error, under every interleaving of the ownership
\* check, the metadata delete and the object delete.
C4_DeleteRace ==
  \A w1, w2 \in Workers :
    RacingDeletes(w1, w2) =>
      LET succ == {w \in {w1, w2} : call[w].retErr = NoErr}
      IN  /\ Cardinality(succ) <= 1
          /\ PassedCheck(w2) => Cardinality(succ) = 1
          /\ \A w \in {w1, w2} \ succ :
               call[w].retErr \in NotFoundErrors(call[w].noteID)

\* both calls saw the note in their ownership check; one won, one lost
C4_Witness ==
  \E w1, w2 \in Workers :
    /\ RacingDeletes(w1, w2) /\ PassedCheck(w2)
    /\ call[w1].retErr = NoErr
    /\ call[w2].retErr =
         <<"failed to delete note: ", "note not found or not owned by user">>

\* the metadata insert of this CreateNote failed after a successful upload
InsertFailed(w) ==
  /\ Done(w, "CreateNote")
  /\ Len(call[w].calls) >= 2
  /\ call[w].retErr # NoErr

MetadataWriteErrors ==
  {<<"failed to save note: ", "failed to create note: ">> \o DBError,
   <<"failed to save note: ", "failed to create note: ">> \o ConstraintError}

\* C5: if the metadata insert fails after a successful upload,
\* uploader.Delete is invoked exactly once with the key passed to Upload,
\* and CreateNote returns the metadata-write error whether that delete
\* succeeds or fails.
C5_Compensation ==
  \A w \in Workers :
    InsertFailed(w) =>
      /\ Len(call[w].calls) = 3
      /\ call[w].calls[1].fn = "uploader.Upload"
      /\ call[w].calls[2].fn = "repo.CreateNote"
      /\ call[w].calls[3].fn = "uploader.Delete"
      /\ call[w].calls[3].key = call[w].calls[1].key
      /\ call[w].calls[1].key =
           GenerateFileKey(call[w].userEmail, UUIDString(call[w].noteID),
                           call[w].header.Filename)
      /\ call[w].retErr \in MetadataWriteErrors
      /\ call[w].retNote = NoNote

\* the insert failed and the compensating delete failed too
C5_Witness ==
  \E w \in Workers :
    /\ InsertFailed(w)
    /\ "uploader" \in call[w].faults
    /\ call[w].calls[1].key \in DOMAIN files
    /\ call[w].retErr \in MetadataWriteErrors

\* what a requested limit or offset denotes, by the claim's own numbers
ClaimedLimit(kind, num) == IF kind = "number" /\ num >= 1 /\ num <= 100 THEN num ELSE 50

ClaimedOffset(kind, num) == IF kind = "number" /\ num >= 0 THEN num ELSE 0

ParamOf(params, str) == CHOOSE p \in params : p.str = str

\* the limit and offset a finished list request asked for, as the claim
\* reads them
RequestedLimit(c) ==
  IF c.op = "GetNotes"
  THEN ClaimedLimit(ParamOf(LimitParams, c.limitStr).kind, ParamOf(LimitParams, c.limitStr).num)
  ELSE ClaimedLimit("number", c.limit)

RequestedOffset(c) ==
  IF c.op = "GetNotes"
  THEN ClaimedOffset(ParamOf(OffsetParams, c.offsetStr).kind,
                     ParamOf(OffsetParams, c.offsetStr).num)
  ELSE ClaimedOffset("number", c.offset)

IsList(w) == Done(w, "GetNotes") \/ Done(w, "GetUserNotes")

\* the rows a list request of c matches
Matching(c) ==
  {id \in DOMAIN rows :
     /\ rows[id].UserEmail = c.userEmail
     /\ c.courseID # 0 => rows[id].CourseID = c.courseID}

Min(a, b) == IF a < b THEN a ELSE b

Max(a, b) == IF a > b THEN a ELSE b

\* C8: for every request to list notes, through the handler or straight to
\* the service, the limit passed to the metadata query is the requested
\* limit when it is in 1..100 and 50 otherwise (absent, non-numeric, <= 0
\* or > 100), the offset passed is the requested offset when it is >= 0 and
\* 0 otherwise, the applied limit is always in 1..100, and the page
\* returned is the one that limit and offset select.
C8_Pagination ==
  \A w \in Workers :
    IsList(w) =>
      /\ Len(call[w].calls) = 1
      /\ call[w].calls[1].limit = RequestedLimit(call[w])
      /\ call[w].calls[1].offset = RequestedOffset(call[w])
      /\ call[w].calls[1].limit >= 1 /\ call[w].calls[1].limit <= 100
      /\ call[w].calls[1].offset >= 0
      /\ call[w].faults = {} =>
           Len(call[w].retNotes) =
             Min(RequestedLimit(call[w]),
                 Max(0, Cardinality(Matching(call[w])) - RequestedOffset(call[w])))

\* GET /api/notes?limit=1000&offset=-5 queried with limit 50 and offset 0
C8_Witness ==
  \E w \in Workers :
    /\ Done(w, "GetNotes")
    /\ call[w].limitStr = <<"1","0","0","0">>
    /\ call[w].offsetStr = <<"-","5">>
    /\ call[w].calls[1].limit = 50
    /\ call[w].calls[1].offset = 0
    /\ call[w].faults = {}
    /\ Len(call[w].retNotes) = 2

NotFoundOnGet(id) == {<<"note not found: ", ToString(id)>>, <<"note not found">>}

\* C9: with the stores healthy and one request at a time: a successful
\* CreateNote leaves a row with the created id, title, courseID and size;
\* GetUserNotes(owner) returns exactly the owner's rows, one entry each, so
\* one entry after the first create; DeleteNote(id, owner) of an existing
\* note of the owner returns success and removes the row; and from then on
\* GetNoteByID(id, owner) returns a not-found error and no list contains
\* the note.
C9_Lifecycle ==
  /\ deleted \cap DOMAIN rows = {}
  /\ \A w \in Workers :
       /\ (Done(w, "CreateNote") /\ call[w].retErr = NoErr /\ ~call[w].panicked) =>
            /\ call[w].retNote.ID = call[w].noteID
            /\ call[w].noteID \in DOMAIN rows
            /\ rows[call[w].noteID].UserEmail = call[w].userEmail
            /\ SameFields(rows[call[w].noteID], call[w])
            /\ SameFields(call[w].retNote, call[w])
       /\ (IsList(w) /\ call[w].faults = {}) =>
            /\ \A i \in 1..Len(call[w].retNotes) :
                 /\ call[w].retNotes[i].ID \in Matching(call[w]) \ deleted
                 /\ call[w].retNotes[i] = rows[call[w].retNotes[i].ID]
                 /\ \A j \in 1..Len(call[w].retNotes) :
                      i # j => call[w].retNotes[i].ID # call[w].retNotes[j].ID
            /\ (call[w].calls[1].offset = 0
                  /\ call[w].calls[1].limit >= Cardinality(Matching(call[w]))) =>
                 {call[w].retNotes[i].ID : i \in 1..Len(call[w].retNotes)}
                   = Matching(call[w])
       /\ (Done(w, "DeleteNote") /\ "repo" \notin call[w].faults) =>
            \/ /\ call[w].retErr = NoErr
               /\ call[w].noteID \in deleted
               /\ call[w].note.UserEmail = call[w].userEmail
            \/ /\ call[w].retErr \in NotFoundOnGet(call[w].noteID)
               /\ \/ call[w].noteID \notin DOMAIN rows
                  \/ rows[call[w].noteID].UserEmail # call[w].userEmail
       /\ (Done(w, "GetNoteByID") /\ call[w].faults = {}
             /\ call[w].noteID \in deleted) =>
            /\ call[w].retErr \in NotFoundOnGet(call[w].noteID)
            /\ call[w].retNote = NoNote

\* GetNoteByID of a deleted note answers not found while the owner's other
\* note is still stored
C9_Witness ==
  \E w \in Workers :
    /\ Done(w, "GetNoteByID") /\ call[w].faults = {}
    /\ call[w].noteID \in deleted
    /\ call[w].userEmail = OwnerA
    /\ call[w].retErr = <<"note not found: ", ToString(call[w].noteID)>>
    /\ \E id \in DOMAIN rows : rows[id].UserEmail = OwnerA

\* the storage key belongs to a note of owner u
KeyOwnedBy(k, u) ==
  LET prefix == <<"n","o","t","e","s","/">> \o u \o <<"/">>
  IN  Len(k) >= Len(prefix) /\ SubSeq(k, 1, Len(prefix)) = prefix

\* what GetNoteByID and GetUserNotes have handed to their caller
C10_ReadsOwnNotes ==
  \A w \in Workers :
    /\ (Done(w, "GetNoteByID") /\ call[w].retNote # NoNote) =>
         /\ call[w].retErr = NoErr
         /\ call[w].retNote.UserEmail = call[w].userEmail
         /\ call[w].retNote.ID = call[w].noteID
    /\ IsList(w) =>
         \A i \in 1..Len(call[w].retNotes) :
           call[w].retNotes[i].UserEmail = call[w].userEmail

\* what a step of DeleteNote removes
C10_DeletesOwnNotes ==
  \A w \in Workers :
    (call'[w] # call[w] /\ call'[w].op = "DeleteNote") =>
      /\ \A id \in (DOMAIN rows) \ (DOMAIN rows') :
           rows[id].UserEmail = call'[w].userEmail
      /\ \A k \in (DOMAIN files) \ (DOMAIN files') :
           KeyOwnedBy(k, call'[w].userEmail)

-----------------------------------------------------------------------------
(* Properties of the auth service *)

AuthDone(op) == session.pc = "done" /\ session.op = op

RECURSIVE AfterAt(_)
\* the text after the last '@' of an email; nothing if it has no '@'
AfterAt(email) ==
  IF email = <<>> THEN <<>>
  ELSE IF email[Len(email)] = "@" THEN <<>>
  ELSE IF \A i \in 1..Len(email) : email[i] # "@" THEN <<>>
  ELSE Append(AfterAt(SubSeq(email, 1, Len(email) - 1)), email[Len(email)])

\* the domain is rice.edu or a subdomain of it, in any letter case
IsRiceDomain(domain) ==
  \/ ToLower(domain) = <<"r","i","c","e",".","e","d","u">>
  \/ HasSuffix(ToLower(domain), <<".","r","i","c","e",".","e","d","u">>)

\* C6: ExchangeCodeForToken issues a token only when the domain part of the
\* resolved email (the text after '@', compared case-insensitively) equals
\* rice.edu or is a subdomain of rice.edu; for every other email it returns
\* the domain-rejected error and no token.
C6_DomainPolicy ==
  (AuthDone("ExchangeCodeForToken") /\ session.provider = "ok") =>
    IF IsRiceDomain(AfterAt(session.userInfo.Email))
    THEN session.retErr = NoErr /\ session.retToken # NoToken
    ELSE /\ session.retErr = <<"only Rice University emails are allowed">>
         /\ session.retToken = NoToken

\* a token was issued to an address whose domain is not under rice.edu
C6_Witness ==
  /\ AuthDone("ExchangeCodeForToken")
  /\ ~IsRiceDomain(AfterAt(session.userInfo.Email))
  /\ session.retToken # NoToken
  /\ session.retToken.claims.Email = session.userInfo.Email

TokenExpiredErrors ==
  {<<"invalid token: ", "token has invalid claims: token is expired">>,
   <<"token expired">>}

\* ValidateJWT has finished on the token the client was issued
ValidatedHeld ==
  /\ AuthDone("ValidateJWT")
  /\ session.held # NoToken
  /\ session.token = session.held

\* C7: a token produced by generateJWT at time t carries the expiry t+24h
\* (in the whole seconds a token keeps); ValidateJWT on it succeeds and
\* returns the same email, name and picture whenever it runs no later than
\* t+23h59m, and fails with a token-expired error whenever it runs at
\* t+24h1s or later; no call replaces the expiry of the token.
C7_TokenWindow ==
  /\ session.held # NoToken =>
       /\ session.held.claims.ExpiresAt * TicksPerSecond
            <= session.heldAt + 24 * 60 * 60 * TicksPerSecond
       /\ session.held.claims.ExpiresAt * TicksPerSecond
            > session.heldAt + 24 * 60 * 60 * TicksPerSecond - TicksPerSecond
  /\ (ValidatedHeld /\ now <= session.heldAt + (23 * 60 + 59) * 60 * TicksPerSecond) =>
       /\ session.retErr = NoErr
       /\ session.retClaims.Email = session.heldFor.Email
       /\ session.retClaims.Name = session.heldFor.Name
       /\ session.retClaims.Picture = session.heldFor.Picture
  /\ (ValidatedHeld
        /\ session.startedAt >= session.heldAt + (24 * 60 * 60 + 1) * TicksPerSecond) =>
       /\ session.retErr \in TokenExpiredErrors
       /\ session.retClaims = NoClaims

\* the token is refused as expired 24h1s after it was issued in the middle
\* of a second
C7_Witness ==
  /\ ValidatedHeld
  /\ session.heldAt = 1
  /\ session.startedAt = session.heldAt + (24 * 60 * 60 + 1) * TicksPerSecond
  /\ session.retErr \in TokenExpiredErrors

-----------------------------------------------------------------------------
(* Properties of the HTTP layer *)

HttpDone(route) == http.pc = "responded" /\ http.req.route = route

\* the token is one the service signed and it had not expired at time t
GenuineAt(tok, t) ==
  /\ tok # NoToken
  /\ tok.alg = "HS256"
  /\ tok.sig = [alg |-> "HS256", claims |-> tok.claims, key |-> auth.jwtSecret]
  /\ t < tok.claims.ExpiresAt * TicksPerSecond

\* the request in service carried a token that ValidateJWT accepts
Authenticated ==
  /\ TokenString(http.req).found
  /\ GenuineAt(TokenString(http.req).token, http.at)

\* a CreateNote call in progress runs for the owner named by the token
C11_CallOwnerFromToken ==
  call[ApiWorker].op = "CreateNote" =>
    /\ http.pc = "handler"
    /\ Authenticated
    /\ call[ApiWorker].userEmail = TokenString(http.req).token.claims.Email
    /\ call[ApiWorker].note # NoNote =>
         call[ApiWorker].note.UserEmail = TokenString(http.req).token.claims.Email

\* a row written carries the owner named by the token, and keeps its owner
C11_RowOwnerFromToken ==
  /\ \A id \in (DOMAIN rows') \ (DOMAIN rows) :
       /\ Authenticated
       /\ rows'[id].UserEmail = TokenString(http.req).token.claims.Email
  /\ \A id \in (DOMAIN rows') \cap (DOMAIN rows) :
       rows'[id].UserEmail = rows[id].UserEmail

\* C11: the owner stored on every created note equals the email in the
\* claims of the token that the JWT middleware validated for that request;
\* no form value, query parameter or file name of the request changes the
\* owner recorded, and a stored note keeps its owner.
C11_OwnerFromToken == [](C11_CallOwnerFromToken) /\ [][C11_RowOwnerFromToken]_vars

\* a POST that named another owner in its form was stored under the owner
\* of its token
C11_Witness ==
  /\ HttpDone("POST /api/notes")
  /\ http.status = 201
  /\ http.req.owner = OwnerB
  /\ http.body.note.ID \in DOMAIN rows
  /\ rows[http.body.note.ID].UserEmail = OwnerA
  /\ \E id \in DOMAIN rows : id # http.body.note.ID /\ rows[id].UserEmail = OwnerA

\* a note handler or a service call runs only behind an accepted token, and
\* a request answered is answered 401 exactly when its token was not accepted
C12_HandlerBehindToken ==
  /\ (http.pc = "handler" \/ call[ApiWorker].pc # "idle") =>
       /\ http.req.route \in NoteRoutes
       /\ Authenticated
       /\ http.hasUser
       /\ http.user = TokenString(http.req).token.claims
  /\ (http.pc = "responded" /\ http.req.route \in NoteRoutes) =>
       (http.status = 401 <=> ~Authenticated)

\* the stores change only while a handler runs, and the step that answers
\* 401 changes neither store and starts no call
C12_StoresBehindToken ==
  /\ (rows' # rows \/ files' # files) => (http.pc = "handler" /\ Authenticated)
  /\ (http.pc = "idle" /\ http'.pc = "responded" /\ http'.status = 401) =>
       (rows' = rows /\ files' = files /\ call' = call)

\* C12: for every request to a route under /api/notes the note handler
\* runs, and any NoteService or store operation happens, only if
\* ValidateJWT accepted the token presented with the request; a request
\* with no token or with a token that fails validation gets 401 and leaves
\* both stores unchanged.
C12_ProtectedRoutes == [](C12_HandlerBehindToken) /\ [][C12_StoresBehindToken]_vars

\* a DELETE of a stored note with an expired cookie was answered 401 and
\* the note is still stored
C12_Witness ==
  /\ HttpDone("DELETE /api/notes/{id}")
  /\ http.status = 401
  /\ http.req.cookie = Cookie(session.held)
  /\ session.held # NoToken
  /\ http.req.id.id \in DOMAIN rows
  /\ rows[http.req.id.id].FilePath \in DOMAIN files

\* the tokens a request to /api/auth/me presents
MeTokens(req) ==
  (IF req.cookie.present THEN {req.cookie.value} ELSE {})
  \cup (IF req.authHeader.scheme = "Bearer" THEN {req.authHeader.token} ELSE {})

\* C13: GET /api/auth/me returns 200 with the email, name and picture of
\* the claims whenever a valid session token is presented in the jwt cookie
\* or in an Authorization: Bearer header, and 401 when no token is
\* presented or the presented token is invalid.
C13_MeCookieOrBearer ==
  HttpDone("GET /api/auth/me") =>
    IF \E tok \in MeTokens(http.req) : GenuineAt(tok, http.at)
    THEN /\ http.status = 200
         /\ \E tok \in MeTokens(http.req) :
              /\ GenuineAt(tok, http.at)
              /\ http.body.email = tok.claims.Email
              /\ http.body.name = tok.claims.Name
              /\ http.body.picture = tok.claims.Picture
    ELSE http.status = 401

\* the held token, still valid, sent only as a Bearer header was answered 401
C13_Witness ==
  /\ HttpDone("GET /api/auth/me")
  /\ http.req.authHeader = AuthHeader("Bearer", session.held)
  /\ ~http.req.cookie.present
  /\ GenuineAt(session.held, http.at)
  /\ http.status = 401
  /\ http.body.error = "no_token"

\* the DELETE of the request ran without a store failure
DeleteServed ==
  /\ HttpDone("DELETE /api/notes/{id}")
  /\ http.served.op = "DeleteNote"
  /\ http.served.faults = {}

\* C14: DELETE /api/notes/{id} with a valid session answers 204 when the
\* note existed and was owned by the caller, and 404 when the note does not
\* exist or is owned by another user.
C14_DeleteStatus ==
  DeleteServed =>
    IF http.req.id.id \in deleted /\ http.req.id.id \notin DOMAIN rows
       /\ http.served.note.UserEmail = http.user.Email
    THEN http.status = 204
    ELSE http.status = 404

\* the DELETE of another owner's note, still stored, was answered 500
C14_Witness ==
  /\ DeleteServed
  /\ http.req.id.id \in DOMAIN rows
  /\ rows[http.req.id.id].UserEmail # http.user.Email
  /\ http.status = 500

Callbacked == HttpDone("GET /api/auth/google/callback")

ExchangeSucceeded == http.exchange.called /\ http.exchange.result.err = NoErr

C16_CallbackStatus ==
  (Callbacked /\ http.req.error = "" /\ ~ExchangeSucceeded) =>
    /\ http.body.kind = "error" /\ http.body.error # "" /\ http.body.message # ""
    /\ IF http.req.code = "" \/ http.req.state = ""
       THEN http.status = 400 /\ ~http.exchange.called
       ELSE /\ http.exchange.called
            /\ IF http.exchange.provider = "exchange fails"
               THEN http.status = 401
               ELSE IF http.exchange.result.err = <<"email not verified">>
               THEN http.status = 401
               ELSE IF http.exchange.result.err = <<"only Rice University emails are allowed">>
               THEN http.status = 403
               ELSE http.status = 500

\* the provider refused the authorization code and the callback answered 500
C16_Witness ==
  /\ Callbacked
  /\ http.exchange.called
  /\ http.exchange.provider = "exchange fails"
  /\ http.status = 500
  /\ http.body.error = "auth_error"

\* the messages the note routes map failures to
FixedMessages ==
  {<<"Authentication required">>, <<"Invalid or expired token">>,
   <<"Invalid form data">>, <<"Title and course_id are required">>,
   <<"File is required">>, <<"Invalid note ID">>, <<"Note not found">>,
   <<"Failed to get notes">>, <<"Failed to delete note">>}

\* the texts of the errors the stores return
StoreErrorTexts ==
  {e[i] : e \in {DBError, ConstraintError, S3Error}, i \in {1}}

\* C17: for every failed note request the body sent to the client holds
\* only the fixed message mapped from the error kind; the text of the
\* underlying store error never appears in the response.
C17_NoStoreErrorInBody ==
  (http.pc = "responded" /\ http.req.route \in NoteRoutes /\ http.status >= 400) =>
    /\ http.body.kind = "text"
    /\ \A i \in DOMAIN http.body.text : http.body.text[i] \notin StoreErrorTexts
    /\ http.served.faults # {} => http.body.text \in FixedMessages

\* the upload of a valid POST failed and the body names the S3 error
C17_Witness ==
  /\ HttpDone("POST /api/notes")
  /\ http.status = 400
  /\ http.served.faults = {"uploader"}
  /\ http.body.text = <<"failed to upload file: ", "failed to upload file to S3: ",
                        "s3: operation error">>

-----------------------------------------------------------------------------
(* Properties of the two stores *)

\* C18: in every reachable state, under any interleaving of concurrent
\* CreateNote and DeleteNote calls and any store failures, every metadata
\* row names a storage key under which an object exists; an object without
\* a row may exist, a row without its object never.
C18_NoDanglingReference ==
  \A id \in DOMAIN rows : rows[id].FilePath \in DOMAIN files

\* a row and its object are stored next to an object that no row names,
\* while a delete of that row is between its two store calls
C18_Witness ==
  /\ \E id \in DOMAIN rows : rows[id].FilePath \in DOMAIN files
  /\ \E k \in DOMAIN files : \A id \in DOMAIN rows : rows[id].FilePath # k
  /\ \E w \in Workers : call[w].op = "DeleteNote" /\ call[w].pc = "s3delete"

\* the upload of this CreateNote failed
UploadFailed(w) ==
  /\ Done(w, "CreateNote")
  /\ call[w].calls # <<>>
  /\ call[w].calls[1].fn = "uploader.Upload"
  /\ call[w].faults = {"uploader"}
  /\ Len(call[w].calls) = 1

\* what a finished CreateNote has returned and left stored
C19_FailedCreateStoresNothing ==
  \A w \in Workers :
    /\ UploadFailed(w) =>
         /\ call[w].retErr = <<"failed to upload file: ", "failed to upload file to S3: ">>
                               \o S3Error
         /\ \A i \in DOMAIN call[w].calls : call[w].calls[i].fn # "repo.CreateNote"
    /\ (Done(w, "CreateNote") /\ call[w].retErr # NoErr) =>
         /\ call[w].noteID \notin DOMAIN rows
         /\ \A id \in DOMAIN rows : rows[id].FilePath # call[w].note.FilePath
         /\ call[w].retNote = NoNote

\* a step of a CreateNote call changes the metadata store only by adding
\* the note of a call that returns success
C19_OnlySuccessWrites ==
  \A w \in Workers :
    (call[w].op = "CreateNote" /\ call'[w] # call[w] /\ rows' # rows) =>
      /\ call'[w].pc = "done"
      /\ call'[w].retErr = NoErr
      /\ rows' = (call[w].noteID :> call'[w].note) @@ rows
      /\ call[w].noteID \notin DOMAIN rows

\* C19: if uploader.Upload fails in CreateNote, CreateNote returns the
\* storage-upload error, repo.CreateNote is never invoked and the metadata
\* store is unchanged; every CreateNote call that returns an error leaves
\* the metadata store exactly as it was.
C19_UploadFailure == [](C19_FailedCreateStoresNothing) /\ [][C19_OnlySuccessWrites]_vars

\* an upload failed while a note of an earlier call is stored
C19_Witness ==
  \E w \in Workers :
    /\ UploadFailed(w)
    /\ rows # <<>>
    /\ call[w].noteID \notin DOMAIN rows

\* the metadata delete of this DeleteNote succeeded
RowDeleted(w) ==
  /\ call[w].op = "DeleteNote"
  /\ Len(call[w].calls) >= 2
  /\ call[w].calls[2].fn = "repo.DeleteNote"
  /\ call[w].pc \in {"s3delete", "done"}
  /\ call[w].pc = "done" => Len(call[w].calls) = 3

\* C20: DeleteNote by the owner deletes the metadata row before it attempts
\* the object delete, and returns success whenever the metadata delete
\* succeeded, even if uploader.Delete fails; afterwards the row is gone
\* (GetNoteByID reports not-found) whether or not the object remains.
C20_DeleteOrder ==
  \A w \in Workers :
    /\ RowDeleted(w) =>
         /\ call[w].noteID \notin DOMAIN rows
         /\ call[w].noteID \in deleted
         /\ call[w].note.UserEmail = call[w].userEmail
         /\ GetNoteByIDResult(call[w].noteID, call[w].userEmail, FALSE).err
              = <<"note not found: ", ToString(call[w].noteID)>>
    /\ (RowDeleted(w) /\ call[w].pc = "done") =>
         /\ call[w].calls[1].fn = "repo.GetNoteByID"
         /\ call[w].calls[3].fn = "uploader.Delete"
         /\ call[w].calls[3].key = call[w].note.FilePath
         /\ call[w].retErr = NoErr
    /\ (Done(w, "DeleteNote") /\ call[w].retErr = NoErr) => RowDeleted(w)
    /\ (call[w].op = "DeleteNote" /\ call[w].calls # <<>>
        /\ call[w].calls[Len(call[w].calls)].fn = "uploader.Delete") => RowDeleted(w)

\* the object delete failed, DeleteNote returned success, the row is gone
\* and the object remains
C20_Witness ==
  \E w \in Workers :
    /\ Done(w, "DeleteNote")
    /\ call[w].faults = {"uploader"}
    /\ call[w].retErr = NoErr
    /\ call[w].noteID \notin DOMAIN rows
    /\ call[w].note.FilePath \in DOMAIN files

-----------------------------------------------------------------------------
(* Properties of the note service: frames, keys and lists *)

\* worker w starts a DeleteNote of a note that is not stored or is stored
\* for another owner, and the lookup itself does not fail
DeleteOfForeignNote(w) ==
  /\ call[w].pc = "idle"
  /\ call'[w].op = "DeleteNote"
  /\ call'[w].faults = {}
  /\ \/ call'[w].noteID \notin DOMAIN rows
     \/ rows[call'[w].noteID].UserEmail # call'[w].userEmail

\* such a call returns not-found at once and has made the lookup only
C21_ForeignDeleteStep ==
  \A w \in Workers :
    DeleteOfForeignNote(w) =>
      /\ call'[w].pc = "done"
      /\ call'[w].retErr \in {<<"note not found: ", ToString(call'[w].noteID)>>,
                              <<"note not found">>}
      /\ Len(call'[w].calls) = 1
      /\ call'[w].calls[1].fn = "repo.GetNoteByID"
      /\ rows' = rows /\ files' = files

\* a DeleteNote calls repo.DeleteNote or uploader.Delete only for a note it
\* found stored for its caller
C21_DeletesOnlyFound ==
  \A w \in Workers :
    (call[w].op = "DeleteNote" /\ Len(call[w].calls) >= 2) =>
      /\ call[w].note # NoNote
      /\ call[w].note.ID = call[w].noteID
      /\ call[w].note.UserEmail = call[w].userEmail

\* C21: DeleteNote(id, owner) for an id that does not exist or whose note
\* belongs to another user returns a not-found error (never a storage
\* error) and changes nothing: repo.DeleteNote and uploader.Delete are not
\* invoked and both stores are unchanged.
C21_ForeignDeleteFrame == [](C21_DeletesOnlyFound) /\ [][C21_ForeignDeleteStep]_vars

\* a DeleteNote of another owner's stored note has returned not-found and
\* the note and its object are still stored
C21_Witness ==
  \E w \in Workers :
    /\ Done(w, "DeleteNote")
    /\ call[w].faults = {}
    /\ call[w].retErr = <<"note not found">>
    /\ call[w].noteID \in DOMAIN rows
    /\ rows[call[w].noteID].UserEmail # call[w].userEmail
    /\ rows[call[w].noteID].FilePath \in DOMAIN files
    /\ Len(call[w].calls) = 1

\* the notes that exist: stored rows and the notes of calls in progress
NotesInHand ==
  {rows[id] : id \in DOMAIN rows}
  \cup {call[w].note : w \in {v \in Workers : call[v].note # NoNote}}

\* the key of every note is the one GenerateFileKey names, and two notes
\* that differ in owner, id or file name have different keys
C22_KeysDiffer ==
  /\ \A n \in NotesInHand :
       n.FilePath = <<"n","o","t","e","s","/">> \o n.UserEmail \o <<"/">>
                      \o <<ToString(n.ID)>> \o <<"/">> \o n.FileName
  /\ \A n1, n2 \in NotesInHand :
       (n1.UserEmail # n2.UserEmail \/ n1.ID # n2.ID \/ n1.FileName # n2.FileName)
         => n1.FilePath # n2.FilePath
  /\ \A k \in DOMAIN files :
       \A n \in NotesInHand : n.FilePath = k => n.ID = files[k]

\* an upload writes under a key that holds no object, and an object is
\* removed only under the key of the note the call is about
C22_OwnObjectOnly ==
  /\ \A k \in (DOMAIN files) \cap (DOMAIN files') : files'[k] = files[k]
  /\ \A k \in (DOMAIN files') \ (DOMAIN files) :
       \E w \in Workers : call[w].pc = "upload" /\ call[w].note.FilePath = k
                          /\ files'[k] = call[w].noteID
  /\ \A k \in (DOMAIN files) \ (DOMAIN files') :
       \E w \in Workers : /\ call[w].pc \in {"cleanup", "s3delete"}
                          /\ call[w].note.FilePath = k
                          /\ files[k] = call[w].noteID

\* C22: after any sequence of CreateNote calls no two distinct notes have
\* the same storage key: the key notes/{owner}/{note-id}/{file-name} is
\* different for every pair of notes that differ in owner, note id or file
\* name, so one note's upload or delete never overwrites or removes
\* another note's object.
C22_UniqueKeys == [](C22_KeysDiffer) /\ [][C22_OwnObjectOnly]_vars

\* two notes are stored whose owners and file names run into each other:
\* one owner's address ends in '/' and the other note's identifier
C22_Witness ==
  \E id1, id2 \in DOMAIN rows :
    /\ id1 # id2
    /\ rows[id1].UserEmail = OwnerA
    /\ rows[id2].UserEmail = OwnerA \o <<"/">> \o UUIDString(id1)
    /\ rows[id1].FileName # rows[id2].FileName
    /\ rows[id1].FilePath \in DOMAIN files
    /\ rows[id2].FilePath \in DOMAIN files

\* two workers run CreateNote with the same owner, title and file
TwinCreates(w1, w2) ==
  /\ w1 # w2
  /\ call[w1].op = "CreateNote" /\ call[w2].op = "CreateNote"
  /\ call[w1].userEmail = call[w2].userEmail
  /\ call[w1].title = call[w2].title
  /\ call[w1].courseID = call[w2].courseID
  /\ call[w1].header = call[w2].header
  /\ ValidCreateInput(call[w1])
  /\ call[w1].courseID <= 20

\* C23: two CreateNote calls by the same owner with the same title and the
\* same file name, run concurrently in any interleaving, both succeed with
\* healthy stores: they get different note ids, produce two metadata rows
\* and two distinct storage objects, and neither overwrites or fails
\* because of the other (the rows and objects are there for as long as no
\* DeleteNote has removed them).
C23_TwinCreates ==
  \A w1, w2 \in Workers :
    TwinCreates(w1, w2) =>
      /\ (call[w1].note # NoNote /\ call[w2].note # NoNote) =>
           /\ call[w1].noteID # call[w2].noteID
           /\ call[w1].note.FilePath # call[w2].note.FilePath
      /\ (call[w1].pc = "done" /\ call[w1].faults = {}) =>
           /\ call[w1].retErr = NoErr
           /\ call[w1].retNote.ID = call[w1].noteID
           /\ call[w1].noteID \notin deleted =>
                /\ call[w1].noteID \in DOMAIN rows
                /\ rows[call[w1].noteID].UserEmail = call[w1].userEmail
                /\ rows[call[w1].noteID].Title = call[w1].title
                /\ rows[call[w1].noteID].FilePath \in DOMAIN files
                /\ files[rows[call[w1].noteID].FilePath] = call[w1].noteID

\* the calls overlap: the call that got its id second has succeeded while
\* the first, its object uploaded, has yet to store its row
C23_Witness ==
  \E w1, w2 \in Workers :
    /\ TwinCreates(w1, w2)
    /\ call[w1].pc = "insert" /\ call[w2].pc = "done"
    /\ call[w2].retErr = NoErr
    /\ call[w1].noteID < call[w2].noteID
    /\ deleted = {}
    /\ call[w2].noteID \in DOMAIN rows
    /\ call[w1].note.FilePath \in DOMAIN files
    /\ call[w2].note.FilePath \in DOMAIN files
    /\ call[w1].note.FilePath # call[w2].note.FilePath

-----------------------------------------------------------------------------
(* Properties of the MockUploader *)

\* C24: with the in-memory MockUploader selected, concurrent Upload and
\* Delete calls from different requests never access the shared files map
\* at the same time without synchronization, and no update is lost: an
\* upload that returned has stored its object, a delete that found its
\* object has removed it, and the process is not stopped.
C24_MockUploaderSafe ==
  /\ \A w1, w2 \in Workers :
       (w1 # w2 /\ InMap(w1) /\ InMap(w2)) => ~(WritesMap(w1) \/ WritesMap(w2))
  /\ \A w \in Workers :
       (call[w].op = "CreateNote" /\ call[w].pc = "insert") =>
         call[w].note.FilePath \in DOMAIN files
  /\ \A id \in DOMAIN rows : rows[id].FilePath \in DOMAIN files
  /\ \A w \in Workers :
       (Done(w, "DeleteNote") /\ call[w].retErr = NoErr /\ call[w].faults = {}
        /\ ~call[w].panicked) =>
         call[w].note.FilePath \notin DOMAIN files
  /\ \A w \in Workers : ~call[w].panicked

\* two uploads ran at the same time, both returned nil, both rows are
\* stored, and the object of one of them is not in the map
C24_Witness ==
  /\ deleted = {}
  /\ Cardinality(DOMAIN rows) = 2
  /\ \E id \in DOMAIN rows : rows[id].FilePath \notin DOMAIN files
  /\ \E id \in DOMAIN rows : rows[id].FilePath \in DOMAIN files
  /\ ~Crashed

-----------------------------------------------------------------------------
(* Properties of the tokens *)

\* C25: ValidateJWT accepts a token only if its signature is valid under
\* the service's secret and its signing algorithm is the one generateJWT
\* signs with (HS256); a token carrying any other algorithm, or signed with
\* any other secret, is rejected.
C25_OnlyHS256 ==
  (AuthDone("ValidateJWT") /\ session.retErr = NoErr) =>
    /\ session.token.alg = "HS256"
    /\ session.token.sig.alg = "HS256"
    /\ session.token.sig.key = auth.jwtSecret
    /\ session.token.sig.claims = session.token.claims

\* a token signed HS384 with the service's secret has been accepted
C25_Witness ==
  /\ AuthDone("ValidateJWT")
  /\ session.token.alg = "HS384"
  /\ session.retErr = NoErr
  /\ session.retClaims = session.held.claims

\* C26: when the signing secret is absent (JWT_SECRET unset, so the
\* service is built with an empty secret), token issuance fails with a
\* signing error: ExchangeCodeForToken returns an error and no token, so no
\* session token signed with an empty key is ever issued or accepted.
C26_EmptySecretFails ==
  auth.jwtSecret = "" =>
    /\ session.held = NoToken
    /\ AuthDone("ExchangeCodeForToken") =>
         (session.retErr # NoErr /\ session.retToken = NoToken)
    /\ (AuthDone("ValidateJWT") /\ session.token.sig.key = "") =>
         (session.retErr # NoErr /\ session.retClaims = NoClaims)

\* with the empty secret, a token that a client signed itself with the
\* empty key has been accepted, and the client also holds an issued token
C26_Witness ==
  /\ auth.jwtSecret = ""
  /\ session.held # NoToken
  /\ session.held.sig.key = ""
  /\ AuthDone("ValidateJWT")
  /\ session.token \in EmptyKeyTokens
  /\ session.retErr = NoErr
  /\ session.retClaims = session.token.claims

\* the account of the finished exchange with its verified flag turned over
FlagTurned == [session.userInfo EXCEPT !.Verified = ~session.userInfo.Verified]

Listed(w) == call[w].retNotes

\* C28: a list request that the metadata store answers returns notes of the
\* store, each once, in descending order of creation time; every note
\* returned belongs to the owner asked for; with a non-empty courseID every
\* note returned has exactly that courseID and, when the page is large
\* enough, every note of the owner with that courseID is returned; with an
\* empty courseID the notes of the owner in every course are returned.
C28_OrderedAndFiltered ==
  \A w \in Workers :
    (IsList(w) /\ call[w].faults = {}) =>
      LET r == Listed(w)
          ids == {r[i].ID : i \in 1..Len(r)}
          wholePage == /\ RequestedOffset(call[w]) = 0
                       /\ RequestedLimit(call[w]) >= Cardinality(Matching(call[w]))
      IN  /\ \A i \in 1..Len(r) :
               /\ r[i].ID \in DOMAIN rows
               /\ rows[r[i].ID] = r[i]
               /\ r[i].UserEmail = call[w].userEmail
               /\ call[w].courseID # 0 => r[i].CourseID = call[w].courseID
          /\ \A i, j \in 1..Len(r) :
               i < j => r[i].ID # r[j].ID /\ r[i].UploadedAt >= r[j].UploadedAt
          /\ (wholePage /\ call[w].courseID # 0) =>
               ids = {id \in DOMAIN rows :
                        /\ rows[id].UserEmail = call[w].userEmail
                        /\ rows[id].CourseID = call[w].courseID}
          /\ (wholePage /\ call[w].courseID = 0) =>
               ids = {id \in DOMAIN rows : rows[id].UserEmail = call[w].userEmail}

\* the owner has notes in two courses created at different times: the list
\* for one course returns only its note, the list for no course returns
\* both, the later one first
C28_Witness ==
  \E w \in Workers :
    /\ Done(w, "GetUserNotes")
    /\ call[w].faults = {}
    /\ \E a, b \in DOMAIN rows :
         /\ rows[a].UserEmail = call[w].userEmail
         /\ rows[b].UserEmail = call[w].userEmail
         /\ rows[a].CourseID # rows[b].CourseID
         /\ rows[a].UploadedAt < rows[b].UploadedAt
         /\ \/ call[w].courseID = rows[a].CourseID /\ Listed(w) = <<rows[a]>>
            \/ call[w].courseID = 0 /\ Listed(w) = <<rows[b], rows[a]>>

-----------------------------------------------------------------------------
(* Properties of the OAuth2 flow *)

\* the callback answered carried a code and a state and no error parameter
StatedCallback ==
  /\ Callbacked
  /\ http.req.error = "" /\ http.req.code # "" /\ http.req.state # ""

\* C29: a callback with a code, no error parameter and any non-empty state
\* goes on to ExchangeCodeForToken, whether or not GoogleLogin ever sent
\* that state; its answer is the one the exchange decides, and when the
\* exchange succeeds it is the 307 redirect with the session cookie.
C29_StateNotCompared ==
  StatedCallback =>
    /\ http.exchange.called
    /\ http.exchange.result =
         ExchangeCodeForTokenResult(http.exchange.provider, http.exchange.userInfo, http.at)
    /\ http.exchange.result.err = NoErr =>
         /\ http.status = 307
         /\ http.setCookie.Name = "jwt"
         /\ GenuineAt(http.setCookie.Value, http.at)
    /\ http.exchange.result.err # NoErr => http.status \in {401, 403, 500}

\* a callback with a state that no login sent was answered with the
\* redirect and a session cookie, after a login had sent another state
C29_Witness ==
  /\ StatedCallback
  /\ session.issued # {}
  /\ http.req.state \notin session.issued
  /\ http.status = 307
  /\ GenuineAt(http.setCookie.Value, http.at)
  /\ session.held = http.setCookie.Value

-----------------------------------------------------------------------------
(* Properties of the middleware *)

\* the Authorization header is "Bearer " followed by a non-empty token
BearerHeader(req) == req.authHeader.scheme = "Bearer" /\ req.authHeader.token # NoToken

\* ValidateJWT accepts the token at time t
Validates(tok, t) == ValidateJWTResult(tok, t).err = NoErr

\* C30: for a request to a note route, when the Authorization header is
\* "Bearer " followed by a non-empty token, the middleware validates that
\* token and nothing else: the request passes with the header's claims
\* exactly when the header's token validates, and is answered 401 when it
\* does not, whatever the jwt cookie holds. The cookie decides only when
\* the header is absent, has another scheme, or has an empty token: then
\* the request passes with the cookie's claims exactly when there is a
\* cookie and its token validates.
C30_HeaderPrecedence ==
  (http.pc # "idle" /\ http.req.route \in NoteRoutes) =>
    LET req == http.req
    IN  /\ BearerHeader(req) =>
             /\ http.hasUser <=> Validates(req.authHeader.token, http.at)
             /\ http.hasUser => http.user = req.authHeader.token.claims
             /\ ~Validates(req.authHeader.token, http.at) =>
                  /\ http.pc = "responded"
                  /\ http.status = 401
                  /\ http.body = TextBody(<<"Invalid or expired token">>)
        /\ ~BearerHeader(req) =>
             /\ http.hasUser <=> (req.cookie.present /\ Validates(req.cookie.value, http.at))
             /\ http.hasUser => http.user = req.cookie.value.claims
             /\ ~req.cookie.present =>
                  /\ http.pc = "responded"
                  /\ http.status = 401
                  /\ http.body = TextBody(<<"Authentication required">>)

\* a request with a forged token in the Bearer header and a valid jwt
\* cookie was answered 401
C30_Witness ==
  /\ http.pc = "responded"
  /\ http.req.route \in NoteRoutes
  /\ BearerHeader(http.req)
  /\ ~Validates(http.req.authHeader.token, http.at)
  /\ http.req.cookie.present
  /\ Validates(http.req.cookie.value, http.at)
  /\ http.status = 401
  /\ ~http.hasUser

====
